---------------------------- MODULE Spec2Model ----------------------------
(***************************************************************************)
(* State machine model of StateController (src/src/stateController.cpp,    *)
(* src/include/simple_hexapod_controller/stateController.h): the tick      *)
(* (loop) and the input callbacks of the hexapod high level controller.    *)
(*                                                                         *)
(* Handlers are modelled as functions from a record of the controller's    *)
(* fields to the record after the handler, so that the sequential code of  *)
(* one handler (several assignments, reads of intermediate values) is one  *)
(* atomic action.  WalkController, PoseController, ImpedanceController and *)
(* Model are collaborators whose code is outside the two source files;     *)
(* they are modelled from the design specification and every call made on  *)
(* them in a tick is recorded, in order, in the variable calls.            *)
(***************************************************************************)
EXTENDS Integers, Sequences, FiniteSets, TLC

---------------------------------------------------------------------------
(* Bounds of the model *)

NumLegs == 3
JointsPerLeg == 2

(* Program constants *)

MAX_MANUAL_LEGS == 2

---------------------------------------------------------------------------
(* Enumerations (parametersAndStates.h is not among the sources; the values *)
(* are the ones the controller code names)                                  *)

SystemStates ==
  {"WAITING_FOR_USER", "UNKNOWN", "OFF", "PACKED", "READY", "RUNNING", "SUSPENDED"}

WalkStates == {"STARTING", "MOVING", "STOPPING", "STOPPED"}

LegStates == {"WALKING", "MANUAL", "WALKING_TO_MANUAL", "MANUAL_TO_WALKING"}

Gaits == {"TRIPOD_GAIT", "RIPPLE_GAIT", "WAVE_GAIT", "AMBLE_GAIT"}

GAIT_UNDESIGNATED == "GAIT_UNDESIGNATED"

Legs == 0 .. (NumLegs - 1)

Joints == 1 .. JointsPerLeg

LEG_UNDESIGNATED == -1

NoLeg == LEG_UNDESIGNATED

(* The value a joint's current_position holds until a position is assigned *)
UNASSIGNED_VALUE == 1000000000

(* Velocity inputs: zero or non-zero *)
Vel == {0, 1}

VARIABLES
  \* configuration (params_), fixed after construction
  start_up_sequence, impedance_control, dynamic_stiffness, force_cruise_velocity,
  \* process
  initialised, ros_shutdown, crashed,
  \* system state machine
  system_state, new_system_state, transition_state_flag, user_input_flag,
  \* requests and selections
  gait_selection, gait_type, gait_change_flag, max_acceleration,
  parameter_selection, parameter_being_adjusted, parameter_adjust_flag,
  new_parameter_set, current_value, adjust_step,
  posing_mode, auto_navigation_mode,
  cruise_control_mode, linear_cruise_velocity, angular_cruise_velocity,
  linear_velocity_input, angular_velocity_input,
  primary_leg_selection, secondary_leg_selection,
  primary_leg_state, secondary_leg_state,
  toggle_primary_leg_state, toggle_secondary_leg_state,
  manual_leg_count, pose_reset_mode,
  primary_tip_velocity_input, secondary_tip_velocity_input,
  \* model, walker, poser, impedance
  leg_state, walk_state, tip_force, delta_z,
  stepper_tip, poser_tip, desired_tip,
  \* joints
  desired_position, prev_desired_position, desired_velocity,
  joint_positions_initialised, current_position,
  \* history: the calls of the last tick, the last operation and the fields before it,
  \* the round trip of a leg to MANUAL and back that is under way, the
  \* joints that joint state messages have named so far, and the parameter
  \* adjustment that was requested last, where requests are recorded
  calls, last, pre, trip, reported, request

fields ==
  << start_up_sequence, impedance_control, dynamic_stiffness, force_cruise_velocity,
     initialised, ros_shutdown, crashed,
     system_state, new_system_state, transition_state_flag, user_input_flag,
     gait_selection, gait_type, gait_change_flag, max_acceleration,
     parameter_selection, parameter_being_adjusted, parameter_adjust_flag,
     new_parameter_set, current_value, adjust_step,
     posing_mode, auto_navigation_mode,
     cruise_control_mode, linear_cruise_velocity, angular_cruise_velocity,
     linear_velocity_input, angular_velocity_input,
     primary_leg_selection, secondary_leg_selection,
     primary_leg_state, secondary_leg_state,
     toggle_primary_leg_state, toggle_secondary_leg_state,
     manual_leg_count, pose_reset_mode,
     primary_tip_velocity_input, secondary_tip_velocity_input,
     leg_state, walk_state, tip_force, delta_z,
     stepper_tip, poser_tip, desired_tip,
     desired_position, prev_desired_position, desired_velocity,
     joint_positions_initialised, current_position >>

vars == << fields, calls, last, pre, trip, reported, request >>

(* The controller's fields as one record: the value a handler starts from *)
Cur ==
  [ start_up_sequence |-> start_up_sequence,
    impedance_control |-> impedance_control,
    dynamic_stiffness |-> dynamic_stiffness,
    force_cruise_velocity |-> force_cruise_velocity,
    initialised |-> initialised,
    ros_shutdown |-> ros_shutdown,
    crashed |-> crashed,
    system_state |-> system_state,
    new_system_state |-> new_system_state,
    transition_state_flag |-> transition_state_flag,
    user_input_flag |-> user_input_flag,
    gait_selection |-> gait_selection,
    gait_type |-> gait_type,
    gait_change_flag |-> gait_change_flag,
    max_acceleration |-> max_acceleration,
    parameter_selection |-> parameter_selection,
    parameter_being_adjusted |-> parameter_being_adjusted,
    parameter_adjust_flag |-> parameter_adjust_flag,
    new_parameter_set |-> new_parameter_set,
    current_value |-> current_value,
    adjust_step |-> adjust_step,
    posing_mode |-> posing_mode,
    auto_navigation_mode |-> auto_navigation_mode,
    cruise_control_mode |-> cruise_control_mode,
    linear_cruise_velocity |-> linear_cruise_velocity,
    angular_cruise_velocity |-> angular_cruise_velocity,
    linear_velocity_input |-> linear_velocity_input,
    angular_velocity_input |-> angular_velocity_input,
    primary_leg_selection |-> primary_leg_selection,
    secondary_leg_selection |-> secondary_leg_selection,
    primary_leg_state |-> primary_leg_state,
    secondary_leg_state |-> secondary_leg_state,
    toggle_primary_leg_state |-> toggle_primary_leg_state,
    toggle_secondary_leg_state |-> toggle_secondary_leg_state,
    manual_leg_count |-> manual_leg_count,
    pose_reset_mode |-> pose_reset_mode,
    primary_tip_velocity_input |-> primary_tip_velocity_input,
    secondary_tip_velocity_input |-> secondary_tip_velocity_input,
    leg_state |-> leg_state,
    walk_state |-> walk_state,
    tip_force |-> tip_force,
    delta_z |-> delta_z,
    stepper_tip |-> stepper_tip,
    poser_tip |-> poser_tip,
    desired_tip |-> desired_tip,
    desired_position |-> desired_position,
    prev_desired_position |-> prev_desired_position,
    desired_velocity |-> desired_velocity,
    joint_positions_initialised |-> joint_positions_initialised,
    current_position |-> current_position,
    calls |-> << >> ]

(* The fields after a handler that ended in record r *)
Commit(r) ==
  /\ start_up_sequence' = r.start_up_sequence
  /\ impedance_control' = r.impedance_control
  /\ dynamic_stiffness' = r.dynamic_stiffness
  /\ force_cruise_velocity' = r.force_cruise_velocity
  /\ initialised' = r.initialised
  /\ ros_shutdown' = r.ros_shutdown
  /\ crashed' = r.crashed
  /\ system_state' = r.system_state
  /\ new_system_state' = r.new_system_state
  /\ transition_state_flag' = r.transition_state_flag
  /\ user_input_flag' = r.user_input_flag
  /\ gait_selection' = r.gait_selection
  /\ gait_type' = r.gait_type
  /\ gait_change_flag' = r.gait_change_flag
  /\ max_acceleration' = r.max_acceleration
  /\ parameter_selection' = r.parameter_selection
  /\ parameter_being_adjusted' = r.parameter_being_adjusted
  /\ parameter_adjust_flag' = r.parameter_adjust_flag
  /\ new_parameter_set' = r.new_parameter_set
  /\ current_value' = r.current_value
  /\ adjust_step' = r.adjust_step
  /\ posing_mode' = r.posing_mode
  /\ auto_navigation_mode' = r.auto_navigation_mode
  /\ cruise_control_mode' = r.cruise_control_mode
  /\ linear_cruise_velocity' = r.linear_cruise_velocity
  /\ angular_cruise_velocity' = r.angular_cruise_velocity
  /\ linear_velocity_input' = r.linear_velocity_input
  /\ angular_velocity_input' = r.angular_velocity_input
  /\ primary_leg_selection' = r.primary_leg_selection
  /\ secondary_leg_selection' = r.secondary_leg_selection
  /\ primary_leg_state' = r.primary_leg_state
  /\ secondary_leg_state' = r.secondary_leg_state
  /\ toggle_primary_leg_state' = r.toggle_primary_leg_state
  /\ toggle_secondary_leg_state' = r.toggle_secondary_leg_state
  /\ manual_leg_count' = r.manual_leg_count
  /\ pose_reset_mode' = r.pose_reset_mode
  /\ primary_tip_velocity_input' = r.primary_tip_velocity_input
  /\ secondary_tip_velocity_input' = r.secondary_tip_velocity_input
  /\ leg_state' = r.leg_state
  /\ walk_state' = r.walk_state
  /\ tip_force' = r.tip_force
  /\ delta_z' = r.delta_z
  /\ stepper_tip' = r.stepper_tip
  /\ poser_tip' = r.poser_tip
  /\ desired_tip' = r.desired_tip
  /\ desired_position' = r.desired_position
  /\ prev_desired_position' = r.prev_desired_position
  /\ desired_velocity' = r.desired_velocity
  /\ joint_positions_initialised' = r.joint_positions_initialised
  /\ current_position' = r.current_position
  /\ calls' = r.calls

(* The round trip of a leg: it starts when a WALKING leg goes to            *)
(* WALKING_TO_MANUAL, with manual_leg_count as it was then, is done when the *)
(* leg is back in WALKING, and is given up when a leg selection or the state *)
(* of another leg changes before that                                        *)
NoTrip == [leg |-> NoLeg, count |-> 0, done |-> FALSE]

TripAfter(t, before, after) ==
  LET started == {l \in Legs :
                    /\ before.leg_state[l] = "WALKING"
                    /\ after.leg_state[l] = "WALKING_TO_MANUAL"}
      disturbed ==
        \/ after.primary_leg_selection # before.primary_leg_selection
        \/ after.secondary_leg_selection # before.secondary_leg_selection
        \/ \E l \in Legs :
              l # t.leg /\ after.leg_state[l] # before.leg_state[l]
  IN  IF t.leg = NoLeg \/ t.done
      THEN IF started # {}
           THEN [leg |-> CHOOSE l \in started : TRUE,
                 count |-> before.manual_leg_count, done |-> FALSE]
           ELSE NoTrip
      ELSE IF disturbed THEN NoTrip
      ELSE IF before.leg_state[t.leg] = "MANUAL_TO_WALKING"
              /\ after.leg_state[t.leg] = "WALKING"
      THEN [t EXCEPT !.done = TRUE]
      ELSE t

(* One operation op with input in, taking the fields to record r, after *)
(* which the adjustment requested last is q                             *)
Record(op, in, r, q) ==
  /\ last' = [op |-> op, input |-> in]
  /\ pre' = Cur
  /\ reported' = IF op = "jointStatesCallback"
                 THEN reported \cup { <<in[i].leg, in[i].joint>> : i \in 1 .. Len(in) }
                 ELSE reported
  /\ \E after \in {r} :
        /\ Commit(after)
        /\ trip' = TripAfter(trip, Cur, after)
  /\ request' = q

(* One operation op with input in, taking the fields to record r *)
Step(op, in, r) == Record(op, in, r, request)

(* A call made on a collaborator: its name, the leg it is about and its arguments *)
Call(fn, leg, arg) == [fn |-> fn, leg |-> leg, arg |-> arg]

Did(s, fn, leg, arg) == [s EXCEPT !.calls = Append(@, Call(fn, leg, arg))]


---------------------------------------------------------------------------
(* What a tick reads from the world: whether the choreography it calls      *)
(* reports complete, whether the leg steppers have converged (the walker    *)
(* finishes starting or stopping), and how many joints are measured within  *)
(* tolerance of their packed position.                                      *)

Envs ==
  [ complete : BOOLEAN,
    converged : BOOLEAN,
    check_packed : 0 .. (NumLegs * JointsPerLeg) ]

(* The joints are read only by the resolution of UNKNOWN: in any other state *)
(* one joint measurement stands for all                                      *)
EnvsIn(s) ==
  { e \in Envs : s.system_state # "UNKNOWN" => e.check_packed = 0 }

---------------------------------------------------------------------------
(* StateController::init *)

GaitOfType(type) ==
  CASE type = "tripod_gait" -> "TRIPOD_GAIT"
    [] type = "ripple_gait" -> "RIPPLE_GAIT"
    [] type = "wave_gait" -> "WAVE_GAIT"
    [] type = "amble_gait" -> "AMBLE_GAIT"
    [] OTHER -> GAIT_UNDESIGNATED

init(s) ==
  [s EXCEPT !.gait_selection =
              IF GaitOfType(s.gait_type) = GAIT_UNDESIGNATED THEN @ ELSE GaitOfType(s.gait_type),
            !.system_state = "UNKNOWN",
            !.initialised = TRUE]

---------------------------------------------------------------------------
(* StateController::systemStateCallback *)

(* The target a command sets once WAITING_FOR_USER is left, without start up sequence *)
SkipReadyAndPacked(input) ==
  IF input = "READY" \/ input = "PACKED" THEN "OFF" ELSE input

(* Mutant: in WAITING_FOR_USER only the first command is taken *)
CaptureTarget_FirstOnly(s, input) ==
  IF s.new_system_state = "WAITING_FOR_USER"
  THEN [s EXCEPT !.new_system_state = input]
  ELSE IF s.system_state # "WAITING_FOR_USER" /\ ~s.start_up_sequence
  THEN [s EXCEPT !.new_system_state = SkipReadyAndPacked(input)]
  ELSE s

CaptureTarget(s, input) ==
  IF s.new_system_state = "WAITING_FOR_USER"
  THEN [s EXCEPT !.new_system_state = input]
  ELSE IF s.system_state = "WAITING_FOR_USER" /\ s.new_system_state # input
  THEN [s EXCEPT !.new_system_state = input, !.user_input_flag = TRUE]
  ELSE IF s.system_state # "WAITING_FOR_USER" /\ ~s.start_up_sequence
  THEN [s EXCEPT !.new_system_state = SkipReadyAndPacked(input)]
  ELSE s

RaiseTransitionFlag(s) ==
  IF s.new_system_state # s.system_state /\ s.system_state # "WAITING_FOR_USER"
  THEN [s EXCEPT !.transition_state_flag = TRUE]
  ELSE s

(* Mutant: once WAITING_FOR_USER is left the callback enters the target state *)
systemStateCallback_Immediate(s, input) ==
  LET s1 == RaiseTransitionFlag(CaptureTarget(s, input))
  IN  IF s.system_state # "WAITING_FOR_USER"
      THEN [s1 EXCEPT !.system_state = s1.new_system_state]
      ELSE s1

systemStateCallback(s, input) == RaiseTransitionFlag(CaptureTarget(s, input))

---------------------------------------------------------------------------
(* StateController::transitionSystemState *)

Fatal(s) == Did([s EXCEPT !.ros_shutdown = TRUE], "ros::shutdown", NoLeg, << >>)

(* All joints in each leg are approximately in the packed position *)
AllPacked(check_packed) == check_packed = NumLegs

(* check_packed, the number of joints measured within tolerance of their *)
(* packed position, is recorded as read                                  *)
UnknownResolution(s, env) ==
  LET s1 == Did(s, "check_packed", NoLeg, <<env.check_packed>>)
  IN  IF AllPacked(env.check_packed)
      THEN IF ~s.start_up_sequence
           THEN Fatal(s1)
           ELSE [s1 EXCEPT !.system_state = "PACKED"]
      ELSE IF ~s.start_up_sequence
      THEN [s1 EXCEPT !.system_state = "OFF"]
      ELSE [s1 EXCEPT !.system_state = "PACKED"]

(* Mutant: the system state changes whether or not the choreography is complete *)
Choreography_Eager(s, env, fn, target) ==
  [Did(s, fn, NoLeg, <<IF env.complete THEN 1 ELSE 0>>) EXCEPT !.system_state = target]

(* A choreography of the pose controller, called once in this tick; it reports *)
(* complete as the world says, and then the system state becomes target        *)
Choreography(s, env, fn, target) ==
  LET s1 == Did(s, fn, NoLeg, <<IF env.complete THEN 1 ELSE 0>>)
  IN  IF env.complete THEN [s1 EXCEPT !.system_state = target] ELSE s1

FromOff(s, env) ==
  IF s.new_system_state = "RUNNING" /\ ~s.start_up_sequence
  THEN Choreography(s, env, "directStartup", "RUNNING")
  ELSE [s EXCEPT !.system_state = "PACKED"]

FromRunning(s, env) ==
  IF s.new_system_state = "OFF" /\ ~s.start_up_sequence
  THEN [s EXCEPT !.system_state = "OFF"]
  ELSE Choreography(s, env, "shutDownSequence", "READY")

(* Mutant: unpacking goes straight to the target state *)
FromPacked_Direct(s, env) == Choreography(s, env, "unpackLegs", s.new_system_state)

FromPacked(s, env) == Choreography(s, env, "unpackLegs", "READY")

TransitionStep(s, env) ==
  IF s.system_state = "UNKNOWN"
  THEN UnknownResolution(s, env)
  ELSE IF s.system_state = "OFF" /\ s.new_system_state # "OFF"
  THEN FromOff(s, env)
  ELSE IF s.system_state = "PACKED" /\ s.new_system_state = "OFF"
  THEN [s EXCEPT !.system_state = "OFF"]
  ELSE IF s.system_state = "PACKED"
          /\ (s.new_system_state = "READY" \/ s.new_system_state = "RUNNING")
  THEN FromPacked(s, env)
  ELSE IF s.system_state = "READY"
          /\ (s.new_system_state = "PACKED" \/ s.new_system_state = "OFF")
  THEN Choreography(s, env, "packLegs", "PACKED")
  ELSE IF s.system_state = "READY" /\ s.new_system_state = "RUNNING"
  THEN Choreography(s, env, "startUpSequence", "RUNNING")
  ELSE IF s.system_state = "RUNNING" /\ s.new_system_state # "RUNNING"
  THEN FromRunning(s, env)
  ELSE Fatal(s)

(* Mutant: the flag is left raised *)
TransitionComplete_Never(s) == s

(* Transition complete *)
TransitionComplete(s) ==
  IF s.system_state = s.new_system_state
  THEN [s EXCEPT !.transition_state_flag = FALSE]
  ELSE s

transitionSystemState(s, env) ==
  TransitionComplete(TransitionStep(Did(s, "transitionSystemState", NoLeg, << >>), env))

---------------------------------------------------------------------------
(* Collaborators, modelled from the design specification                   *)

(* Tip positions are vectors <<x, y, z>> *)
DefaultTip(l) == <<l + 1, 2, 3>>

SwingTip(l) == <<l + 2, 2, 4>>

TipVels == { <<0, 0, 0>>, <<0, 0, 1>> }

WorkspaceMax == <<5, 5, 5>>

ClampTip(t) ==
  [i \in 1 .. 3 |-> IF t[i] > WorkspaceMax[i] THEN WorkspaceMax[i]
                    ELSE IF t[i] < 0 THEN 0 ELSE t[i]]

AddVec(a, b) == [i \in 1 .. 3 |-> a[i] + b[i]]

(* WalkController::updateWalk: the walk state follows the commanded magnitude *)
(* and the convergence of the leg steppers; walking legs move their tips      *)
NextWalkState(ws, lin, ang, converged) ==
  LET moving == lin # 0 \/ ang # 0
  IN  CASE ws = "STOPPED" -> IF moving THEN "STARTING" ELSE "STOPPED"
        [] ws = "STARTING" -> IF converged THEN "MOVING" ELSE "STARTING"
        [] ws = "MOVING" -> IF moving THEN "MOVING" ELSE "STOPPING"
        [] ws = "STOPPING" -> IF converged THEN "STOPPED" ELSE "STOPPING"

updateWalk(s, env) ==
  LET ws == NextWalkState(s.walk_state, s.linear_velocity_input,
                          s.angular_velocity_input, env.converged)
      s1 == Did(s, "updateWalk", NoLeg,
                <<s.linear_velocity_input, s.angular_velocity_input>>)
  IN  [s1 EXCEPT
         !.walk_state = ws,
         !.stepper_tip =
            [l \in Legs |->
               IF s.leg_state[l] # "WALKING" THEN s.stepper_tip[l]
               ELSE IF ws = "STOPPED" THEN DefaultTip(l)
               ELSE IF s.stepper_tip[l] = DefaultTip(l) THEN SwingTip(l)
               ELSE DefaultTip(l)]]

(* WalkController::updateManual: a selected leg in MANUAL state integrates its *)
(* tip velocity input, inside the workspace                                    *)
updateManual(s) ==
  LET s1 == Did(s, "updateManual", NoLeg,
                <<s.primary_leg_selection, s.secondary_leg_selection>>)
      moved(l) ==
        IF s.leg_state[l] # "MANUAL" THEN s.stepper_tip[l]
        ELSE IF l = s.primary_leg_selection
        THEN ClampTip(AddVec(s.stepper_tip[l], s.primary_tip_velocity_input))
        ELSE IF l = s.secondary_leg_selection
        THEN ClampTip(AddVec(s.stepper_tip[l], s.secondary_tip_velocity_input))
        ELSE s.stepper_tip[l]
  IN  [s1 EXCEPT !.stepper_tip = [l \in Legs |-> moved(l)]]

(* PoseController::updateStance: the posed tip is the walker's tip under the *)
(* current pose (the body at rest: no translation, no rotation)              *)
updateStance(s) ==
  [Did(s, "updateStance", NoLeg, << >>) EXCEPT !.poser_tip = s.stepper_tip]

(* ImpedanceController::updateImpedance: the vertical offset of a leg from its *)
(* tip force (the settled value of the virtual spring)                         *)
DeltaZOf(force) == force \div 500

updateImpedance(s, l) ==
  [Did(s, "updateImpedance", l, <<DeltaZOf(s.tip_force[l])>>)
     EXCEPT !.delta_z[l] = DeltaZOf(s.tip_force[l])]

---------------------------------------------------------------------------
(* StateController::impedanceControl *)

(* Mutant: the impedance update runs for every leg *)
RECURSIVE ImpedanceLegs_EveryLeg(_, _)
ImpedanceLegs_EveryLeg(s, l) ==
  IF l >= NumLegs THEN s
  ELSE ImpedanceLegs_EveryLeg(updateImpedance(s, l), l + 1)

RECURSIVE ImpedanceLegs(_, _)
ImpedanceLegs(s, l) ==
  IF l >= NumLegs THEN s
  ELSE ImpedanceLegs(IF s.leg_state[l] = "WALKING" THEN updateImpedance(s, l) ELSE s,
                     l + 1)

impedanceControl(s) ==
  LET s1 == IF s.walk_state # "STOPPED"
            THEN Did(s, "updateStiffness", NoLeg, << >>)
            ELSE s
  IN  ImpedanceLegs(s1, 0)

---------------------------------------------------------------------------
(* StateController::changeGait, initGaitParameters *)

ConfiguredGaitType == "tripod_gait"

(* Mutant: the configured gait type is loaded whatever gait is selected *)
GaitTypeName_Configured(gait, configured) == configured

GaitTypeName(gait, configured) ==
  CASE gait = "TRIPOD_GAIT" -> "tripod_gait"
    [] gait = "RIPPLE_GAIT" -> "ripple_gait"
    [] gait = "WAVE_GAIT" -> "wave_gait"
    [] gait = "AMBLE_GAIT" -> "amble_gait"
    [] OTHER -> configured

initGaitParameters(s, gaitSelection) ==
  Did([s EXCEPT !.gait_type = GaitTypeName(gaitSelection, ConfiguredGaitType)],
      "initGaitParameters", NoLeg, << >>)

ZeroVelocity(s) ==
  [s EXCEPT !.linear_velocity_input = 0, !.angular_velocity_input = 0]

(* Mutant: the gait is changed with the acceleration limits left as they are *)
changeGait_LimitsKept(s) ==
  IF s.walk_state = "STOPPED"
  THEN [Did(initGaitParameters(s, s.gait_selection), "setGaitParams", NoLeg, << >>)
          EXCEPT !.gait_change_flag = FALSE]
  ELSE ZeroVelocity(s)

changeGait(s) ==
  IF s.walk_state = "STOPPED"
  THEN [Did(initGaitParameters(s, s.gait_selection), "setGaitParams", NoLeg, << >>)
          EXCEPT !.max_acceleration = [linear |-> -1, angular |-> -1],
                 !.gait_change_flag = FALSE]
  ELSE ZeroVelocity(s)

---------------------------------------------------------------------------
(* StateController::adjustParameter *)

AdjustableParameters == {"STEP_FREQUENCY", "STEP_CLEARANCE"}

NO_PARAMETER_SELECTION == "NO_PARAMETER_SELECTION"

ParameterLimits == [min_value |-> 0, max_value |-> 2, default_value |-> 1]

clamped(v, lo, hi) == IF v < lo THEN lo ELSE IF v > hi THEN hi ELSE v

(* Mutant: the adjusted value is not clamped *)
adjustParameter_Unclamped(s, env) ==
  IF s.walk_state = "STOPPED"
  THEN LET p == s.parameter_being_adjusted
       IN  IF ~s.new_parameter_set
           THEN [Did(s, "impedance.init", NoLeg, << >>)
                   EXCEPT !.current_value[p] = @ + s.adjust_step[p],
                          !.new_parameter_set = TRUE]
           ELSE LET s1 == Did(s, "stepToNewStance", NoLeg,
                              <<IF env.complete THEN 1 ELSE 0>>)
                IN  IF env.complete
                    THEN [s1 EXCEPT !.parameter_adjust_flag = FALSE,
                                    !.new_parameter_set = FALSE]
                    ELSE s1
  ELSE ZeroVelocity(s)

adjustParameter(s, env) ==
  IF s.walk_state = "STOPPED"
  THEN LET p == s.parameter_being_adjusted
       IN  IF ~s.new_parameter_set
           THEN [Did(s, "impedance.init", NoLeg, << >>)
                   EXCEPT !.current_value[p] =
                             clamped(@ + s.adjust_step[p],
                                     ParameterLimits.min_value, ParameterLimits.max_value),
                          !.new_parameter_set = TRUE]
           ELSE LET s1 == Did(s, "stepToNewStance", NoLeg,
                              <<IF env.complete THEN 1 ELSE 0>>)
                IN  IF env.complete
                    THEN [s1 EXCEPT !.parameter_adjust_flag = FALSE,
                                    !.new_parameter_set = FALSE]
                    ELSE s1
  ELSE ZeroVelocity(s)

---------------------------------------------------------------------------
(* StateController::legStateToggle *)

ClearToggles(s) ==
  [s EXCEPT !.toggle_primary_leg_state = FALSE, !.toggle_secondary_leg_state = FALSE]

(* Mutant: one leg more than the cap may start its transition *)
ManualLegAllowed_Inclusive(s) == s.manual_leg_count <= MAX_MANUAL_LEGS

(* The manual leg cap: a walking leg may start its transition to MANUAL *)
ManualLegAllowed(s) == s.manual_leg_count < MAX_MANUAL_LEGS

(* The leg the toggle acts on in this tick *)
TransitioningLeg(s) ==
  IF s.toggle_primary_leg_state THEN s.primary_leg_selection
  ELSE s.secondary_leg_selection

(* Mutant: the transition to MANUAL ends in the transition back *)
ManipulationStep_Through(s, env, l, target, count) ==
  LET s1 == Did([s EXCEPT !.pose_reset_mode = "IMMEDIATE_ALL_RESET"],
                "poseForLegManipulation", l, <<IF env.complete THEN 1 ELSE 0>>)
      s2 == IF s.dynamic_stiffness
            THEN Did(s1, "updateStiffness", l, <<IF env.complete THEN 1 ELSE 0>>)
            ELSE s1
  IN  IF env.complete
      THEN [ClearToggles(s2) EXCEPT
              !.leg_state[l] = IF target = "MANUAL" THEN "MANUAL_TO_WALKING" ELSE target,
              !.pose_reset_mode = "NO_RESET",
              !.manual_leg_count = @ + count]
      ELSE s2

(* poseForLegManipulation and, on progress 1.0, the end of the transition *)
ManipulationStep(s, env, l, target, count) ==
  LET s1 == Did([s EXCEPT !.pose_reset_mode = "IMMEDIATE_ALL_RESET"],
                "poseForLegManipulation", l, <<IF env.complete THEN 1 ELSE 0>>)
      s2 == IF s.dynamic_stiffness
            THEN Did(s1, "updateStiffness", l, <<IF env.complete THEN 1 ELSE 0>>)
            ELSE s1
  IN  IF env.complete
      THEN [ClearToggles(s2) EXCEPT !.leg_state[l] = target,
                                    !.pose_reset_mode = "NO_RESET",
                                    !.manual_leg_count = @ + count]
      ELSE s2

(* Mutant: the return to WALKING leaves manual_leg_count as it is *)
ToggleLeg_NoDecrement(s, env, l) ==
  LET s1 == Did(s, "calculateDefaultPose", NoLeg, << >>)
  IN  CASE s.leg_state[l] = "WALKING" ->
             IF ManualLegAllowed(s1)
             THEN [s1 EXCEPT !.leg_state[l] = "WALKING_TO_MANUAL"]
             ELSE ClearToggles(s1)
        [] s.leg_state[l] = "MANUAL" ->
             [s1 EXCEPT !.leg_state[l] = "MANUAL_TO_WALKING"]
        [] s.leg_state[l] = "WALKING_TO_MANUAL" ->
             ManipulationStep(s1, env, l, "MANUAL", 1)
        [] s.leg_state[l] = "MANUAL_TO_WALKING" ->
             ManipulationStep(s1, env, l, "WALKING", 0)

ToggleLeg(s, env, l) ==
  LET s1 == Did(s, "calculateDefaultPose", NoLeg, << >>)
  IN  CASE s.leg_state[l] = "WALKING" ->
             IF ManualLegAllowed(s1)
             THEN [s1 EXCEPT !.leg_state[l] = "WALKING_TO_MANUAL"]
             ELSE ClearToggles(s1)
        [] s.leg_state[l] = "MANUAL" ->
             [s1 EXCEPT !.leg_state[l] = "MANUAL_TO_WALKING"]
        [] s.leg_state[l] = "WALKING_TO_MANUAL" ->
             ManipulationStep(s1, env, l, "MANUAL", 1)
        [] s.leg_state[l] = "MANUAL_TO_WALKING" ->
             ManipulationStep(s1, env, l, "WALKING", -1)

(* getLegByIDNumber of a selection that names no leg yields no Leg object; *)
(* its use ends the process                                                *)
legStateToggle(s, env) ==
  IF s.walk_state = "STOPPED"
  THEN IF TransitioningLeg(s) \in Legs
       THEN ToggleLeg(s, env, TransitioningLeg(s))
       ELSE [s EXCEPT !.crashed = TRUE]
  ELSE ZeroVelocity(s)

---------------------------------------------------------------------------
(* StateController::runningState *)

(* Mutant: the cruise velocity is substituted whatever request is pending *)
SubAction_CruiseOverrides(s, env) ==
  LET s1 == IF s.gait_change_flag THEN changeGait(Did(s, "changeGait", NoLeg, << >>))
            ELSE IF s.parameter_adjust_flag
            THEN adjustParameter(Did(s, "adjustParameter", NoLeg, << >>), env)
            ELSE IF s.toggle_primary_leg_state \/ s.toggle_secondary_leg_state
            THEN legStateToggle(Did(s, "legStateToggle", NoLeg, << >>), env)
            ELSE s
  IN  IF s.cruise_control_mode = "CRUISE_CONTROL_ON"
      THEN [s1 EXCEPT !.linear_velocity_input = s.linear_cruise_velocity,
                      !.angular_velocity_input = s.angular_cruise_velocity]
      ELSE s1

(* Mutant: every pending request is served in the tick, in the order of the chain *)
SubAction_EveryPending(s, env) ==
  LET s1 == IF s.gait_change_flag THEN changeGait(Did(s, "changeGait", NoLeg, << >>))
            ELSE s
      s2 == IF s.parameter_adjust_flag
            THEN adjustParameter(Did(s1, "adjustParameter", NoLeg, << >>), env)
            ELSE s1
  IN  IF s.toggle_primary_leg_state \/ s.toggle_secondary_leg_state
      THEN legStateToggle(Did(s2, "legStateToggle", NoLeg, << >>), env)
      ELSE IF s.cruise_control_mode = "CRUISE_CONTROL_ON"
      THEN [s2 EXCEPT !.linear_velocity_input = s.linear_cruise_velocity,
                      !.angular_velocity_input = s.angular_cruise_velocity]
      ELSE s2

RequestPending(s) ==
  \/ s.gait_change_flag
  \/ s.parameter_adjust_flag
  \/ s.toggle_primary_leg_state
  \/ s.toggle_secondary_leg_state

SubAction(s, env) ==
  IF s.gait_change_flag THEN changeGait(Did(s, "changeGait", NoLeg, << >>))
  ELSE IF s.parameter_adjust_flag
  THEN adjustParameter(Did(s, "adjustParameter", NoLeg, << >>), env)
  ELSE IF s.toggle_primary_leg_state \/ s.toggle_secondary_leg_state
  THEN legStateToggle(Did(s, "legStateToggle", NoLeg, << >>), env)
  ELSE IF s.cruise_control_mode = "CRUISE_CONTROL_ON"
  THEN [s EXCEPT !.linear_velocity_input = s.linear_cruise_velocity,
                 !.angular_velocity_input = s.angular_cruise_velocity]
  ELSE s

(* Mutant: delta_z is applied to legs in WALKING state only *)
TargetTip_WalkingOnly(s, l) ==
  IF s.leg_state[l] = "WALKING"
  THEN [s.poser_tip[l] EXCEPT ![3] = @ - s.delta_z[l]]
  ELSE s.poser_tip[l]

(* The tip handed to inverse kinematics for leg l *)
TargetTip(s, l) ==
  IF s.leg_state[l] # "MANUAL"
  THEN [s.poser_tip[l] EXCEPT ![3] = @ - s.delta_z[l]]
  ELSE s.poser_tip[l]

(* Leg::applyIK: the joint positions that put the tip at the desired tip *)
(* position (one coordinate of the tip for each joint)                  *)
JointPositions(tip) == [j \in Joints |-> tip[((j - 1) % 3) + 1]]

RECURSIVE IKLegs(_, _)
IKLegs(s, l) ==
  IF l >= NumLegs THEN s
  ELSE CHOOSE r \in
         { IKLegs(solved, l + 1) :
             solved \in { Did(Did([s EXCEPT !.desired_tip[l] = TargetTip(s, l),
                                            !.desired_position[l] =
                                               JointPositions(TargetTip(s, l))],
                                  "setDesiredTipPosition", l, TargetTip(s, l)),
                              "applyIK", l, TargetTip(s, l)) } } : TRUE

(* Each stage works on the result of the stage before it *)
Pipeline(s, env) ==
  CHOOSE r \in { IKLegs(posed, 0) :
                   posed \in { updateStance(moved) :
                     moved \in { updateManual(walked) :
                       walked \in {updateWalk(s, env)} } } } : TRUE

(* Mutant: the tip positions are not updated while the walker is stopping *)
SkipPipeline_WhileStopping(s) == RequestPending(s) /\ s.walk_state # "STOPPED"

SkipPipeline(s) == RequestPending(s) /\ s.walk_state = "STOPPED"

runningState(s, env) ==
  CHOOSE r \in { IF s1.crashed THEN s1
                 ELSE IF ~SkipPipeline(s1) THEN Pipeline(s1, env)
                 ELSE s1 :
                   s1 \in {SubAction(Did(s, "runningState", NoLeg, << >>), env)} } : TRUE

---------------------------------------------------------------------------
(* StateController::loop *)

Compensation(s) ==
  IF s.system_state # "UNKNOWN"
  THEN LET s1 == Did(s, "updateCurrentPose", NoLeg, << >>)
       IN  IF s.impedance_control THEN impedanceControl(s1) ELSE s1
  ELSE s

StateMachine(s, env) ==
  IF s.transition_state_flag THEN transitionSystemState(s, env)
  ELSE IF s.system_state = "RUNNING" THEN runningState(s, env)
  ELSE s

(* Mutant: the impedance stage runs after the state machine *)
loop_ImpedanceLast(s, env) == Compensation(StateMachine(s, env))

loop(s, env) ==
  CHOOSE r \in { StateMachine(compensated, env) : compensated \in {Compensation(s)} } : TRUE

---------------------------------------------------------------------------
(* StateController::publishDesiredJointState *)

(* Ticks per second, 1 / time_delta *)
TickRate == 2

(* Joint::max_angular_speed, the same for every joint *)
MaxAngularSpeed == 2

(* The clamp of the velocity to max_angular_speed, with the reduction of the *)
(* desired position, is commented out in the source                          *)
publishDesiredJointState(s) ==
  Did([s EXCEPT
         !.desired_velocity =
            [l \in Legs |-> [j \in Joints |->
               (s.desired_position[l][j] - s.prev_desired_position[l][j]) * TickRate]],
         !.prev_desired_position = s.desired_position],
      "interface.publish", NoLeg, << >>)

---------------------------------------------------------------------------
(* Input callbacks *)

bodyVelocityInputCallback(s, lin, ang) ==
  [s EXCEPT !.linear_velocity_input = lin, !.angular_velocity_input = ang]

primaryTipVelocityInputCallback(s, v) == [s EXCEPT !.primary_tip_velocity_input = v]

secondaryTipVelocityInputCallback(s, v) == [s EXCEPT !.secondary_tip_velocity_input = v]

(* Mutant: a gait is selected in any system state *)
gaitSelectionCallback_AnyState(s, input) ==
  IF input # s.gait_selection /\ input # GAIT_UNDESIGNATED
  THEN [s EXCEPT !.gait_selection = input, !.gait_change_flag = TRUE]
  ELSE s

(* Mutant: the gait is selected without the request for the change *)
gaitSelectionCallback_FlagNotRaised(s, input) ==
  IF s.system_state = "RUNNING" /\ input # s.gait_selection /\ input # GAIT_UNDESIGNATED
  THEN [s EXCEPT !.gait_selection = input]
  ELSE s

gaitSelectionCallback(s, input) ==
  IF s.system_state = "RUNNING" /\ input # s.gait_selection /\ input # GAIT_UNDESIGNATED
  THEN [s EXCEPT !.gait_selection = input, !.gait_change_flag = TRUE]
  ELSE s

parameterSelectionCallback(s, input) ==
  IF s.system_state = "RUNNING" /\ input # s.parameter_selection
  THEN IF input # NO_PARAMETER_SELECTION
       THEN [s EXCEPT !.parameter_selection = input, !.parameter_being_adjusted = input]
       ELSE [s EXCEPT !.parameter_selection = input]
  ELSE s

sign(x) == IF x > 0 THEN 1 ELSE IF x < 0 THEN -1 ELSE 0

(* Mutant: a direction of 0 is taken as a request *)
parameterAdjustCallback_ZeroAccepted(s, adjust_direction) ==
  IF /\ s.system_state = "RUNNING"
     /\ ~s.parameter_adjust_flag
     /\ s.parameter_selection # NO_PARAMETER_SELECTION
  THEN LET p == s.parameter_being_adjusted
       IN  [s EXCEPT !.adjust_step[p] =
                        IF sign(@) # sign(adjust_direction) THEN @ * (-1) ELSE @,
                     !.parameter_adjust_flag = TRUE]
  ELSE s

parameterAdjustCallback(s, adjust_direction) ==
  IF /\ s.system_state = "RUNNING"
     /\ adjust_direction # 0
     /\ ~s.parameter_adjust_flag
     /\ s.parameter_selection # NO_PARAMETER_SELECTION
  THEN LET p == s.parameter_being_adjusted
       IN  [s EXCEPT !.adjust_step[p] =
                        IF sign(@) # sign(adjust_direction) THEN @ * (-1) ELSE @,
                     !.parameter_adjust_flag = TRUE]
  ELSE s

posingModeCallback(s, input) ==
  IF s.system_state = "RUNNING" /\ input # s.posing_mode
  THEN [s EXCEPT !.posing_mode = input]
  ELSE s

autoNavigationCallback(s, input) ==
  IF s.system_state = "RUNNING" /\ input # s.auto_navigation_mode
  THEN [s EXCEPT !.auto_navigation_mode = input]
  ELSE s

(* The cruise velocity of the configuration (linear_cruise_velocity, *)
(* angular_cruise_velocity)                                         *)
ConfiguredCruiseVelocity == [linear |-> 1, angular |-> 1]

(* Mutant: every message that asks for cruise control samples the velocity *)
cruiseControlCallback_Resampled(s, input) ==
  IF s.system_state = "RUNNING"
  THEN IF input = "CRUISE_CONTROL_ON"
       THEN IF s.force_cruise_velocity
            THEN [s EXCEPT !.cruise_control_mode = input,
                           !.linear_cruise_velocity = ConfiguredCruiseVelocity.linear,
                           !.angular_cruise_velocity = ConfiguredCruiseVelocity.angular]
            ELSE [s EXCEPT !.cruise_control_mode = input,
                           !.linear_cruise_velocity = s.linear_velocity_input,
                           !.angular_cruise_velocity = s.angular_velocity_input]
       ELSE [s EXCEPT !.cruise_control_mode = input]
  ELSE s

cruiseControlCallback(s, input) ==
  IF s.system_state = "RUNNING" /\ input # s.cruise_control_mode
  THEN IF input = "CRUISE_CONTROL_ON"
       THEN IF s.force_cruise_velocity
            THEN [s EXCEPT !.cruise_control_mode = input,
                           !.linear_cruise_velocity = ConfiguredCruiseVelocity.linear,
                           !.angular_cruise_velocity = ConfiguredCruiseVelocity.angular]
            ELSE [s EXCEPT !.cruise_control_mode = input,
                           !.linear_cruise_velocity = s.linear_velocity_input,
                           !.angular_cruise_velocity = s.angular_velocity_input]
       ELSE [s EXCEPT !.cruise_control_mode = input]
  ELSE s

primaryLegSelectionCallback(s, input) ==
  IF s.system_state = "RUNNING" /\ s.primary_leg_selection # input
  THEN [s EXCEPT !.primary_leg_selection = input]
  ELSE s

secondaryLegSelectionCallback(s, input) ==
  IF s.system_state = "RUNNING" /\ s.secondary_leg_selection # input
  THEN [s EXCEPT !.secondary_leg_selection = input]
  ELSE s

(* Mutant: the primary toggle is accepted while the secondary one is pending *)
primaryLegStateCallback_NoExclusion(s, input) ==
  IF /\ s.system_state = "RUNNING"
     /\ input # s.primary_leg_state
     /\ s.primary_leg_selection # LEG_UNDESIGNATED
  THEN [s EXCEPT !.primary_leg_state = input, !.toggle_primary_leg_state = TRUE]
  ELSE s

primaryLegStateCallback(s, input) ==
  IF /\ s.system_state = "RUNNING"
     /\ input # s.primary_leg_state
     /\ s.primary_leg_selection # LEG_UNDESIGNATED
     /\ ~s.toggle_secondary_leg_state
  THEN [s EXCEPT !.primary_leg_state = input, !.toggle_primary_leg_state = TRUE]
  ELSE s

secondaryLegStateCallback(s, input) ==
  IF /\ s.system_state = "RUNNING"
     /\ input # s.secondary_leg_state
     /\ s.secondary_leg_selection # LEG_UNDESIGNATED
     /\ ~s.toggle_primary_leg_state
  THEN [s EXCEPT !.secondary_leg_state = input, !.toggle_secondary_leg_state = TRUE]
  ELSE s

(* Mutant: the raw effort is read at the index of the leg's id *)
TipForceOf_ById(raw, l) == clamped(raw[l + 1] - 1255, 0, 1000)

(* Tip force of leg l: the raw effort at index 2 * l less the offset, clamped *)
TipForceOf(raw, l) == clamped(raw[2 * l + 1] - 1255, 0, 1000)

tipForceCallback(s, raw) == [s EXCEPT !.tip_force = [l \in Legs |-> TipForceOf(raw, l)]]

(* Joint::position_offset, the same for every joint *)
PositionOffset == 1

(* The entries of a joint state message in turn: the named joint takes the *)
(* measured position less its offset                                       *)
RECURSIVE AssignJointStates(_, _)
AssignJointStates(s, joint_states) ==
  IF joint_states = << >>
  THEN s
  ELSE LET e == Head(joint_states)
       IN  AssignJointStates(
             [s EXCEPT !.current_position[e.leg][e.joint] = e.position - PositionOffset],
             Tail(joint_states))

(* Mutant: the positions count as initialised after the first message *)
AllPositionsReceived_AnyMessage(s) == TRUE

(* All joint positions have been received from the topic *)
AllPositionsReceived(s) ==
  \A l \in Legs, j \in Joints : s.current_position[l][j] # UNASSIGNED_VALUE

jointStatesCallback(s, joint_states) ==
  LET s1 == AssignJointStates(s, joint_states)
  IN  IF ~s1.joint_positions_initialised
      THEN [s1 EXCEPT !.joint_positions_initialised = AllPositionsReceived(s1)]
      ELSE s1

---------------------------------------------------------------------------
(* Inputs *)

LegSelections == Legs \cup {LEG_UNDESIGNATED}

LegStateInputs == {"WALKING", "MANUAL"}

GaitInputs == {"TRIPOD_GAIT", "WAVE_GAIT", GAIT_UNDESIGNATED}

ParameterInputs == AdjustableParameters \cup {NO_PARAMETER_SELECTION}

CruiseControlModes == {"CRUISE_CONTROL_OFF", "CRUISE_CONTROL_ON"}

PosingModes == {"NO_POSING", "X_Y_POSING", "PITCH_ROLL_POSING", "Z_YAW_POSING"}

AutoNavigationModes == {"AUTO_NAVIGATION_OFF", "AUTO_NAVIGATION_ON"}

RawSamples == {1000, 1755, 2755}

(* The effort array of a tip force message: entry 2 * l is leg l's *)
RawEfforts ==
  { [i \in 1 .. (2 * NumLegs) |-> IF i % 2 = 1 THEN a ELSE b] : a, b \in RawSamples }

---------------------------------------------------------------------------
(* Initial state: the controller as constructed *)

(* The configuration is drawn from the given sets; members the constructor *)
(* leaves uninitialised (the velocity inputs) hold any value of theirs     *)
Constructed(startups, impedances, stiffnesses, forces, vels, tipvels) ==
  /\ start_up_sequence \in startups
  /\ impedance_control \in impedances
  /\ dynamic_stiffness \in stiffnesses
  /\ force_cruise_velocity \in forces
  /\ initialised = FALSE
  /\ ros_shutdown = FALSE
  /\ crashed = FALSE
  /\ system_state = "WAITING_FOR_USER"
  /\ new_system_state = "WAITING_FOR_USER"
  /\ transition_state_flag = FALSE
  /\ user_input_flag = FALSE
  /\ gait_selection = GAIT_UNDESIGNATED
  /\ gait_type = ConfiguredGaitType
  /\ gait_change_flag = FALSE
  /\ max_acceleration = [linear |-> 1, angular |-> 1]
  /\ parameter_selection = NO_PARAMETER_SELECTION
  /\ parameter_being_adjusted = "UNASSIGNED"
  /\ parameter_adjust_flag = FALSE
  /\ new_parameter_set = FALSE
  /\ current_value = [p \in AdjustableParameters |-> ParameterLimits.default_value]
  /\ adjust_step = [p \in AdjustableParameters |-> 1]
  /\ posing_mode = "NO_POSING"
  /\ auto_navigation_mode = "AUTO_NAVIGATION_OFF"
  /\ cruise_control_mode = "CRUISE_CONTROL_OFF"
  /\ linear_cruise_velocity = 0
  /\ angular_cruise_velocity = 0
  /\ linear_velocity_input \in vels
  /\ angular_velocity_input = 0
  /\ primary_leg_selection = LEG_UNDESIGNATED
  /\ secondary_leg_selection = LEG_UNDESIGNATED
  /\ primary_leg_state = "WALKING"
  /\ secondary_leg_state = "WALKING"
  /\ toggle_primary_leg_state = FALSE
  /\ toggle_secondary_leg_state = FALSE
  /\ manual_leg_count = 0
  /\ pose_reset_mode = "NO_RESET"
  /\ primary_tip_velocity_input \in tipvels
  /\ secondary_tip_velocity_input \in tipvels
  /\ leg_state = [l \in Legs |-> "WALKING"]
  /\ walk_state = "STOPPED"
  /\ tip_force = [l \in Legs |-> 0]
  /\ delta_z = [l \in Legs |-> 0]
  /\ stepper_tip = [l \in Legs |-> DefaultTip(l)]
  /\ poser_tip = [l \in Legs |-> DefaultTip(l)]
  /\ desired_tip = [l \in Legs |-> DefaultTip(l)]
  /\ desired_position = [l \in Legs |-> [j \in Joints |-> 0]]
  /\ prev_desired_position = [l \in Legs |-> [j \in Joints |-> 0]]
  /\ desired_velocity = [l \in Legs |-> [j \in Joints |-> 0]]
  /\ joint_positions_initialised = FALSE
  /\ current_position = [l \in Legs |-> [j \in Joints |-> UNASSIGNED_VALUE]]
  /\ calls = << >>
  /\ last = [op |-> "construct", input |-> "none"]
  /\ pre = Cur
  /\ trip = NoTrip
  /\ reported = {}
  /\ request = [parameter |-> "none", direction |-> 0]

Init == Constructed(BOOLEAN, BOOLEAN, BOOLEAN, BOOLEAN, Vel, TipVels)

(* No leg is ever in MANUAL state: the tip velocity inputs are never read *)
InitSys == Constructed(BOOLEAN, BOOLEAN, {FALSE}, {FALSE}, Vel, {<<0, 0, 0>>})

---------------------------------------------------------------------------
(* Actions.  Callbacks are delivered and ticks run while the process lives. *)

Alive == ~ros_shutdown /\ ~crashed

InitCtl == Alive /\ ~initialised /\ Step("init", "none", init(Cur))

Loop == Alive /\ initialised /\ \E env \in EnvsIn(Cur) : Step("loop", "tick", loop(Cur, env))

SystemStateCommand(inputs) ==
  Alive /\ \E i \in inputs : Step("systemStateCallback", i, systemStateCallback(Cur, i))

SystemStateCallback == SystemStateCommand(SystemStates)

(* A tick of a transition whose choreography, if it calls one, reports complete *)
TransitionCompletes ==
  Alive /\ initialised /\ transition_state_flag
    /\ \E env \in EnvsIn(Cur) : env.complete /\ Step("loop", "tick", loop(Cur, env))

BodyVelocityCommand(lins, angs) ==
  Alive /\ \E lin \in lins, ang \in angs :
             Step("bodyVelocityInputCallback", <<lin, ang>>,
                  bodyVelocityInputCallback(Cur, lin, ang))

BodyVelocityInputCallback == BodyVelocityCommand(Vel, Vel)

PrimaryTipVelocityCommand(inputs) ==
  Alive /\ \E v \in inputs :
             Step("primaryTipVelocityInputCallback", v, primaryTipVelocityInputCallback(Cur, v))

PrimaryTipVelocityInputCallback == PrimaryTipVelocityCommand(TipVels)

SecondaryTipVelocityCommand(inputs) ==
  Alive /\ \E v \in inputs :
             Step("secondaryTipVelocityInputCallback", v,
                  secondaryTipVelocityInputCallback(Cur, v))

SecondaryTipVelocityInputCallback == SecondaryTipVelocityCommand(TipVels)

GaitSelectionCommand(inputs) ==
  Alive /\ \E g \in inputs : Step("gaitSelectionCallback", g, gaitSelectionCallback(Cur, g))

GaitSelectionCallback == GaitSelectionCommand(GaitInputs)

CruiseControlCommand(inputs) ==
  Alive /\ \E m \in inputs : Step("cruiseControlCallback", m, cruiseControlCallback(Cur, m))

CruiseControlCallback == CruiseControlCommand(CruiseControlModes)

PosingModeCommand(inputs) ==
  Alive /\ \E m \in inputs : Step("posingModeCallback", m, posingModeCallback(Cur, m))

PosingModeCallback == PosingModeCommand(PosingModes)

AutoNavigationCommand(inputs) ==
  Alive /\ \E m \in inputs : Step("autoNavigationCallback", m, autoNavigationCallback(Cur, m))

AutoNavigationCallback == AutoNavigationCommand(AutoNavigationModes)

ParameterSelectionCommand(inputs) ==
  Alive /\ \E p \in inputs :
             Step("parameterSelectionCallback", p, parameterSelectionCallback(Cur, p))

ParameterSelectionCallback == ParameterSelectionCommand(ParameterInputs)

ParameterAdjustCommand(inputs) ==
  Alive /\ \E d \in inputs :
             Step("parameterAdjustCallback", d, parameterAdjustCallback(Cur, d))

ParameterAdjustCallback == ParameterAdjustCommand({-1, 0, 1})

(* The callback, with the request it accepts recorded: the parameter that *)
(* is selected then and the direction asked for                           *)
ParameterAdjustRequest(inputs) ==
  Alive /\ \E d \in inputs :
             \E r \in {parameterAdjustCallback(Cur, d)} :
                Record("parameterAdjustCallback", d, r,
                       IF ~parameter_adjust_flag /\ r.parameter_adjust_flag
                       THEN [parameter |-> parameter_being_adjusted, direction |-> d]
                       ELSE request)

PrimaryLegSelectionCommand(inputs) ==
  Alive /\ \E l \in inputs :
             Step("primaryLegSelectionCallback", l, primaryLegSelectionCallback(Cur, l))

PrimaryLegSelectionCallback == PrimaryLegSelectionCommand(LegSelections)

SecondaryLegSelectionCommand(inputs) ==
  Alive /\ \E l \in inputs :
             Step("secondaryLegSelectionCallback", l, secondaryLegSelectionCallback(Cur, l))

SecondaryLegSelectionCallback == SecondaryLegSelectionCommand(LegSelections)

PrimaryLegStateCommand(inputs) ==
  Alive /\ \E x \in inputs :
             Step("primaryLegStateCallback", x, primaryLegStateCallback(Cur, x))

PrimaryLegStateCallback == PrimaryLegStateCommand(LegStateInputs)

SecondaryLegStateCommand(inputs) ==
  Alive /\ \E x \in inputs :
             Step("secondaryLegStateCallback", x, secondaryLegStateCallback(Cur, x))

SecondaryLegStateCallback == SecondaryLegStateCommand(LegStateInputs)

PublishDesiredJointState ==
  Alive /\ initialised
    /\ Step("publishDesiredJointState", "none", publishDesiredJointState(Cur))

JointStatesCommand(inputs) ==
  Alive /\ \E m \in inputs : Step("jointStatesCallback", m, jointStatesCallback(Cur, m))

TipForceCommand(inputs) ==
  Alive /\ \E raw \in inputs : Step("tipForceCallback", raw, tipForceCallback(Cur, raw))

TipForceCallback == TipForceCommand(RawEfforts)

---------------------------------------------------------------------------
(* Specifications *)

(* The system state machine: init, system state commands and ticks *)
NextSys == InitCtl \/ SystemStateCallback \/ Loop

SpecSys == InitSys /\ [][NextSys]_vars

(* Selection and state toggles of the primary leg on the running controller *)
InitLegs == Constructed({FALSE}, {FALSE}, BOOLEAN, {FALSE}, {0}, {<<0, 0, 0>>})

RunCommand == SystemStateCommand({"RUNNING"})

NextLegs ==
  \/ InitCtl
  \/ RunCommand
  \/ Loop
  \/ PrimaryLegSelectionCallback
  \/ PrimaryLegStateCallback

SpecLegs == InitLegs /\ [][NextLegs]_vars

(* Requests on the running controller: driving, a gait change, the adjustment *)
(* of one parameter, and the takeover of a leg                                *)
InitRun == Constructed({FALSE}, {FALSE}, {FALSE}, {FALSE}, Vel, {<<0, 0, 0>>})

NextRun ==
  \/ InitCtl
  \/ RunCommand
  \/ Loop
  \/ BodyVelocityCommand(Vel, {0})
  \/ GaitSelectionCommand({"WAVE_GAIT"})
  \/ ParameterSelectionCommand({"STEP_FREQUENCY"})
  \/ ParameterAdjustCommand({1})
  \/ PrimaryLegSelectionCommand({0, 1})
  \/ PrimaryLegStateCommand({"MANUAL"})

SpecRun == InitRun /\ [][NextRun]_vars

(* The pipeline of the running controller, with and without impedance    *)
(* control: driving, tip forces (no load, or a load on every leg) and the *)
(* takeover of a leg                                                      *)
InitPipeline == Constructed({FALSE}, BOOLEAN, {FALSE}, {FALSE}, {0}, {<<0, 0, 0>>})

LoadSamples == {raw \in RawEfforts : raw[1] \in {1000, 1755} /\ raw[2] = 1000}

NextPipeline ==
  \/ InitCtl
  \/ RunCommand
  \/ Loop
  \/ BodyVelocityCommand(Vel, {0})
  \/ TipForceCommand(LoadSamples)
  \/ PrimaryLegSelectionCommand({0, 1})
  \/ PrimaryLegStateCommand({"MANUAL"})

SpecPipeline == InitPipeline /\ [][NextPipeline]_vars

(* The controller configured with the start up sequence. The tick runs   *)
(* periodically, and a choreography that keeps being called eventually   *)
(* reports complete                                                      *)
InitStartUp == Constructed({TRUE}, BOOLEAN, {FALSE}, {FALSE}, {0}, {<<0, 0, 0>>})

SpecStartUp == InitStartUp /\ [][NextSys]_vars /\ WF_vars(TransitionCompletes)

(* Cruise control on the running controller, with the requests that force *)
(* a stop: a gait change, the adjustment of a parameter, a leg toggle      *)
InitCruise == Constructed({FALSE}, {FALSE}, {FALSE}, BOOLEAN, {0}, {<<0, 0, 0>>})

NextCruise ==
  \/ InitCtl
  \/ RunCommand
  \/ Loop
  \/ BodyVelocityCommand(Vel, {0})
  \/ CruiseControlCallback
  \/ GaitSelectionCommand({"WAVE_GAIT"})
  \/ ParameterSelectionCommand({"STEP_FREQUENCY"})
  \/ ParameterAdjustCommand({1})
  \/ PrimaryLegSelectionCommand({0})
  \/ PrimaryLegStateCommand({"MANUAL"})

SpecCruise == InitCruise /\ [][NextCruise]_vars

(* Gait selection on the running controller, driven or not, which may be  *)
(* switched off and started again.  The tick runs periodically, and a     *)
(* walker that keeps being updated eventually converges: it finishes      *)
(* starting, and it finishes stopping under zero velocity                 *)
InitGait == Constructed({FALSE}, {FALSE}, {FALSE}, {FALSE}, {0}, {<<0, 0, 0>>})

WalkerConverges ==
  Alive /\ initialised /\ system_state = "RUNNING" /\ ~transition_state_flag
    /\ \E env \in EnvsIn(Cur) : env.converged /\ Step("loop", "tick", loop(Cur, env))

NextGait ==
  \/ InitCtl
  \/ SystemStateCommand({"RUNNING", "OFF"})
  \/ Loop
  \/ BodyVelocityCommand(Vel, {0})
  \/ GaitSelectionCallback

SpecGait == InitGait /\ [][NextGait]_vars /\ WF_vars(WalkerConverges)

(* Parameter selection and adjustment on the running controller, driven *)
(* or not, with a gait change that may be pending at the same time      *)
NextParams ==
  \/ InitCtl
  \/ RunCommand
  \/ Loop
  \/ BodyVelocityCommand(Vel, {0})
  \/ GaitSelectionCommand({"WAVE_GAIT"})
  \/ ParameterSelectionCallback
  \/ ParameterAdjustCallback

SpecParams == InitGait /\ [][NextParams]_vars

(* Tip force messages at any time, with readings below the offset, in *)
(* range and above the range                                          *)
NextForce == InitCtl \/ RunCommand \/ Loop \/ TipForceCallback

SpecForce == InitPipeline /\ [][NextForce]_vars

(* The impedance stage while legs are taken over and given back: the robot *)
(* stands, with and without impedance control                             *)
NextImpedance ==
  \/ InitCtl
  \/ RunCommand
  \/ Loop
  \/ PrimaryLegSelectionCommand({0, 1})
  \/ PrimaryLegStateCallback

SpecImpedance == InitPipeline /\ [][NextImpedance]_vars

(* The joints of the running controller, driven or not: the desired joint *)
(* state is published between ticks                                       *)
NextJoints ==
  \/ InitCtl
  \/ RunCommand
  \/ Loop
  \/ BodyVelocityCommand(Vel, {0})
  \/ PublishDesiredJointState

SpecJoints == InitGait /\ [][NextJoints]_vars

(* The mode, selection and request callbacks, delivered before the        *)
(* controller is started, during its start and while it runs; the robot   *)
(* is not driven and no leg is selected in the secondary slot             *)
NextFrame ==
  \/ InitCtl
  \/ RunCommand
  \/ Loop
  \/ GaitSelectionCommand({"WAVE_GAIT"})
  \/ PosingModeCommand({"X_Y_POSING"})
  \/ CruiseControlCommand({"CRUISE_CONTROL_ON"})
  \/ AutoNavigationCommand({"AUTO_NAVIGATION_ON"})
  \/ ParameterSelectionCommand({"STEP_FREQUENCY"})
  \/ ParameterAdjustCommand({1})
  \/ PrimaryLegSelectionCommand({0})
  \/ PrimaryLegStateCommand({"MANUAL"})
  \/ SecondaryLegStateCommand({"MANUAL"})

SpecFrame == InitGait /\ [][NextFrame]_vars

(* The joint state messages of the bring-up; a message names joints and    *)
(* gives the measured position of each.  Leg 0 reports joint by joint, also *)
(* with a measurement that leaves the joint at UNASSIGNED_VALUE, and every  *)
(* leg reports all its joints in one message                                *)
BootMessages ==
  { << [leg |-> 0, joint |-> j, position |-> m] >> :
       j \in Joints, m \in {1, UNASSIGNED_VALUE + PositionOffset} }
    \cup { [j \in Joints |-> [leg |-> l, joint |-> j, position |-> 2]] : l \in Legs }

NextBoot ==
  \/ InitCtl
  \/ RunCommand
  \/ Loop
  \/ JointStatesCommand(BootMessages)

SpecBoot == InitGait /\ [][NextBoot]_vars

(* Both control slots on the standing robot: the primary slot selects   *)
(* among two legs, the secondary slot one of them, and each toggles the *)
(* leg it selects either way                                            *)
NextSlots ==
  \/ InitCtl
  \/ RunCommand
  \/ Loop
  \/ PrimaryLegSelectionCommand({0, 1})
  \/ SecondaryLegSelectionCommand({1})
  \/ PrimaryLegStateCallback
  \/ SecondaryLegStateCallback

SpecSlots == InitGait /\ [][NextSlots]_vars

(* Parameter adjustment on the standing robot, with selection callbacks *)
(* between a request and the tick that applies it                       *)
NextAdjust ==
  \/ InitCtl
  \/ RunCommand
  \/ Loop
  \/ ParameterSelectionCallback
  \/ ParameterAdjustRequest({-1, 1})

SpecAdjust == InitGait /\ [][NextAdjust]_vars

---------------------------------------------------------------------------
(* Properties of the system state machine *)

Ticked == last.op = "loop"

Called(fn) == \E i \in 1 .. Len(calls) : calls[i].fn = fn

(* fn was called in the last tick and reported complete *)
Completed(fn) == \E i \in 1 .. Len(calls) : calls[i].fn = fn /\ calls[i].arg = <<1>>

Choreographies ==
  {"directStartup", "unpackLegs", "packLegs", "startUpSequence", "shutDownSequence"}

(* The changes of system_state a transition step may make, each with the *)
(* choreography that has to report complete in the same tick ("" if none) *)
AllowedChange(from, to, startup) ==
  CASE from = "UNKNOWN" /\ to = "PACKED" -> ""
    [] from = "UNKNOWN" /\ to = "OFF" /\ ~startup -> ""
    [] from = "OFF" /\ to = "PACKED" -> ""
    [] from = "OFF" /\ to = "RUNNING" /\ ~startup -> "directStartup"
    [] from = "PACKED" /\ to = "OFF" -> ""
    [] from = "PACKED" /\ to = "READY" -> "unpackLegs"
    [] from = "READY" /\ to = "PACKED" -> "packLegs"
    [] from = "READY" /\ to = "RUNNING" -> "startUpSequence"
    [] from = "RUNNING" /\ to = "OFF" /\ ~startup -> ""
    [] from = "RUNNING" /\ to = "READY" -> "shutDownSequence"
    [] OTHER -> "not allowed"

(* The leg states that count against the manual leg cap *)
ManualAssociated == {"MANUAL", "WALKING_TO_MANUAL", "MANUAL_TO_WALKING"}

ManualAssociatedLegs == {l \in Legs : leg_state[l] \in ManualAssociated}

(* C1: at most MAX_MANUAL_LEGS legs are in MANUAL, WALKING_TO_MANUAL or *)
(* MANUAL_TO_WALKING, whatever the interleaving of ticks with the leg   *)
(* selection and leg state callbacks                                    *)
C1_ManualLegCap == Cardinality(ManualAssociatedLegs) <= MAX_MANUAL_LEGS

(* C2: every change of system_state in a tick is made by the transition step, *)
(* is one of the allowed changes, and a choreographed change happens only in  *)
(* the tick in which its choreography reports complete                        *)
C2_AllowedChanges ==
  (Ticked /\ system_state # pre.system_state) =>
     LET how == AllowedChange(pre.system_state, system_state, start_up_sequence)
     IN  /\ pre.transition_state_flag
         /\ Called("transitionSystemState")
         /\ how # "not allowed"
         /\ how # "" => Completed(how)
         /\ \A c \in Choreographies \ {how} : ~Called(c)
         /\ system_state \notin {"WAITING_FOR_USER", "UNKNOWN", "SUSPENDED"}

C2_Witness ==
  /\ Ticked
  /\ pre.system_state = "READY"
  /\ system_state = "RUNNING"
  /\ Completed("startUpSequence")

(* The (current, target) pairs of the transition table; UNKNOWN is resolved *)
(* whatever the target                                                      *)
Listed(from, to, startup) ==
  \/ from = "UNKNOWN"
  \/ from = "OFF" /\ to = "RUNNING" /\ ~startup
  \/ from = "OFF" /\ to \in {"PACKED", "READY", "RUNNING"} /\ startup
  \/ from = "PACKED" /\ to \in {"OFF", "READY", "RUNNING"}
  \/ from = "READY" /\ to \in {"PACKED", "OFF", "RUNNING"}
  \/ from = "RUNNING" /\ to = "OFF" /\ ~startup
  \/ from = "RUNNING" /\ to \in {"READY", "PACKED", "OFF"} /\ startup

(* C3: a transition step for a pair that is not in the table signals fatal *)
(* shutdown, calls no choreography and leaves system_state unchanged       *)
C3_UnlistedIsFatal ==
  ( /\ Ticked
    /\ pre.transition_state_flag
    /\ pre.system_state # pre.new_system_state
    /\ ~Listed(pre.system_state, pre.new_system_state, start_up_sequence) )
  => ( /\ ros_shutdown
       /\ \A c \in Choreographies : ~Called(c)
       /\ system_state = pre.system_state )

(* C4: after every tick, system_state = new_system_state implies that *)
(* transition_state_flag is false                                     *)
C4_FlagClearedAfterTick ==
  (Ticked /\ system_state = new_system_state) => ~transition_state_flag

C4_Witness ==
  /\ Ticked
  /\ pre.transition_state_flag
  /\ pre.system_state # pre.new_system_state
  /\ system_state = new_system_state
  /\ ~transition_state_flag

(* What the sub-actions of the running state did in the last tick *)
GaitLoaded == Called("initGaitParameters")

ParameterAdjusted == current_value # pre.current_value \/ Called("stepToNewStance")

LegToggled == leg_state # pre.leg_state \/ Called("poseForLegManipulation")

Transitional == {"WALKING_TO_MANUAL", "MANUAL_TO_WALKING"}

(* C5: in a tick in which changeGait loads gait parameters, adjustParameter    *)
(* changes a value or advances stepToNewStance, or legStateToggle changes a    *)
(* leg state or advances poseForLegManipulation, the walker is STOPPED; and it *)
(* stays STOPPED for the whole of a parameter adjustment (from the new value   *)
(* to the end of stepToNewStance) and of a leg state transition (while a leg   *)
(* is WALKING_TO_MANUAL or MANUAL_TO_WALKING)                                  *)
C5_StoppedWhileReconfiguring ==
  /\ (Ticked /\ (GaitLoaded \/ ParameterAdjusted \/ LegToggled)) => pre.walk_state = "STOPPED"
  /\ (parameter_adjust_flag /\ new_parameter_set) => walk_state = "STOPPED"
  /\ (\E l \in Legs : leg_state[l] \in Transitional) => walk_state = "STOPPED"

(* The places of the calls of fn in the last tick *)
Pos(fn) == {i \in 1 .. Len(calls) : calls[i].fn = fn}

Before(first, then) == \A i \in Pos(first), j \in Pos(then) : i < j

PipelineRan == Ticked /\ Called("applyIK")

(* C6 as claimed: in a tick that runs the pipeline the order is walker update *)
(* (updateWalk, updateManual), pose update (updateStance), impedance update   *)
(* (delta_z), inverse kinematics, so that the delta_z used by IK is computed  *)
(* after the tick's walker and pose updates                                   *)
C6_WalkPoseImpedanceIK ==
  PipelineRan =>
    /\ Before("updateWalk", "updateManual")
    /\ Before("updateManual", "updateStance")
    /\ Before("updateStance", "updateImpedance")
    /\ Before("updateImpedance", "applyIK")

(* C6 amended: in a tick that runs the pipeline the order is impedance update *)
(* (delta_z of every WALKING leg, under impedance control), walker update     *)
(* (updateWalk, then updateManual), pose update (updateStance), inverse       *)
(* kinematics of every leg; the delta_z computed in the tick is the one its   *)
(* inverse kinematics uses, and it is computed before the walker and pose     *)
(* updates                                                                    *)
C6_ImpedanceWalkPoseIK ==
  PipelineRan =>
    /\ \A fn \in {"updateWalk", "updateManual", "updateStance"} : Cardinality(Pos(fn)) = 1
    /\ \A l \in Legs : Cardinality({i \in Pos("applyIK") : calls[i].leg = l}) = 1
    /\ \A l \in Legs :
          (impedance_control /\ pre.leg_state[l] = "WALKING")
            <=> (\E i \in Pos("updateImpedance") : calls[i].leg = l)
    /\ Before("updateImpedance", "updateWalk")
    /\ Before("updateWalk", "updateManual")
    /\ Before("updateManual", "updateStance")
    /\ Before("updateStance", "setDesiredTipPosition")
    /\ Before("updateStance", "applyIK")
    /\ \A i \in Pos("updateImpedance"), j \in Pos("applyIK") :
          calls[i].leg = calls[j].leg =>
            calls[j].arg[3] = poser_tip[calls[j].leg][3] - calls[i].arg[1]

C6_Witness ==
  /\ PipelineRan
  /\ \E i \in Pos("updateImpedance") : calls[i].arg # <<0>>
  /\ walk_state = "MOVING"

(* C7: the tip handed to inverse kinematics is the posed tip with delta_z     *)
(* subtracted from z when the leg is not MANUAL (WALKING or in a transitional *)
(* state) and the posed tip unchanged when it is MANUAL; x and y are the      *)
(* posed tip's                                                                *)
C7_DesiredTip ==
  PipelineRan =>
    \A l \in Legs :
      /\ desired_tip[l][1] = poser_tip[l][1]
      /\ desired_tip[l][2] = poser_tip[l][2]
      /\ desired_tip[l][3] =
            (IF leg_state[l] = "MANUAL" THEN poser_tip[l][3]
             ELSE poser_tip[l][3] - delta_z[l])
      /\ \A i \in Pos("setDesiredTipPosition") \cup Pos("applyIK") :
            calls[i].leg = l => calls[i].arg = desired_tip[l]

C7_Witness ==
  /\ PipelineRan
  /\ \E l \in Legs : leg_state[l] = "WALKING_TO_MANUAL" /\ delta_z[l] # 0
  /\ \E l \in Legs : leg_state[l] = "MANUAL" /\ delta_z[l] # 0
  /\ \E l \in Legs : leg_state[l] = "WALKING" /\ delta_z[l] # 0

(* C8: with start_up_sequence and target RUNNING, a flagged transition goes  *)
(* UNKNOWN, PACKED, READY, RUNNING in that order, READY only when unpackLegs *)
(* completes and RUNNING only when startUpSequence completes, with the flag  *)
(* raised until RUNNING; and RUNNING with the flag cleared is reached        *)
ColdStart(s) ==
  /\ s.start_up_sequence
  /\ s.new_system_state = "RUNNING"
  /\ s.transition_state_flag
  /\ s.system_state \in {"UNKNOWN", "PACKED", "READY"}

C8_StartupOrder ==
  ColdStart(pre) =>
    /\ new_system_state = "RUNNING"
    /\ \/ system_state = pre.system_state
       \/ Ticked /\ pre.system_state = "UNKNOWN" /\ system_state = "PACKED"
       \/ Ticked /\ pre.system_state = "PACKED" /\ system_state = "READY"
            /\ Completed("unpackLegs")
       \/ Ticked /\ pre.system_state = "READY" /\ system_state = "RUNNING"
            /\ Completed("startUpSequence")
    /\ transition_state_flag <=> system_state # "RUNNING"
    /\ ~ros_shutdown

C8_ColdStartReachesRunning ==
  /\ []C8_StartupOrder
  /\ (ColdStart(Cur) /\ system_state = "UNKNOWN")
       ~> (system_state = "RUNNING" /\ ~transition_state_flag)

C8_Witness ==
  /\ ColdStart(pre)
  /\ pre.system_state = "READY"
  /\ system_state = "RUNNING"
  /\ ~transition_state_flag

(* C9: once WAITING_FOR_USER is left, a command that differs from the current *)
(* system state is accepted: it becomes the target (READY and PACKED as OFF   *)
(* without start up sequence) and the transition flag is raised               *)
C9_CommandAccepted ==
  ( /\ last.op = "systemStateCallback"
    /\ pre.system_state # "WAITING_FOR_USER"
    /\ last.input # pre.system_state )
  => ( /\ new_system_state =
            (IF start_up_sequence THEN last.input ELSE SkipReadyAndPacked(last.input))
       /\ transition_state_flag )

(* C10 as claimed: in WAITING_FOR_USER a command that follows the first one *)
(* leaves new_system_state unchanged                                        *)
C10_LaterCommandIgnored ==
  ( /\ last.op = "systemStateCallback"
    /\ pre.system_state = "WAITING_FOR_USER"
    /\ pre.new_system_state # "WAITING_FOR_USER" )
  => new_system_state = pre.new_system_state

(* C10 amended: in WAITING_FOR_USER every command sets new_system_state to  *)
(* the commanded value; a command that follows the first one with another   *)
(* value overwrites it and raises user_input_flag; the transition flag and  *)
(* system_state are left alone                                              *)
C10_LastCommandWins ==
  (last.op = "systemStateCallback" /\ pre.system_state = "WAITING_FOR_USER") =>
    /\ new_system_state = last.input
    /\ user_input_flag <=>
         \/ pre.user_input_flag
         \/ pre.new_system_state # "WAITING_FOR_USER" /\ pre.new_system_state # last.input
    /\ transition_state_flag = pre.transition_state_flag
    /\ system_state = "WAITING_FOR_USER"

C10_Witness ==
  /\ last.op = "systemStateCallback"
  /\ pre.system_state = "WAITING_FOR_USER"
  /\ pre.new_system_state = "READY"
  /\ last.input = "RUNNING"
  /\ new_system_state = "RUNNING"
  /\ user_input_flag

(* C11: without start up sequence READY and PACKED targets are rewritten to *)
(* OFF: new_system_state is never READY or PACKED, whatever the order of    *)
(* init, system state commands and ticks, and system_state never becomes    *)
(* READY                                                                    *)
C11_NoReadyOrPackedTarget ==
  ~start_up_sequence =>
    /\ new_system_state \notin {"READY", "PACKED"}
    /\ system_state # "READY"

(* What the resolution of UNKNOWN in the last tick measured *)
ResolvedUnknown == Ticked /\ pre.system_state = "UNKNOWN" /\ pre.transition_state_flag

AllJointsWithinTolerance ==
  \E i \in Pos("check_packed") : calls[i].arg = <<NumLegs * JointsPerLeg>>

(* C12: the resolution of UNKNOWN treats the robot as packed exactly when    *)
(* every joint of every leg is within tolerance of its packed position:      *)
(* without start up sequence it signals fatal shutdown, system_state staying *)
(* UNKNOWN, if and only if all joints are within tolerance, and otherwise    *)
(* sets system_state to OFF; with start up sequence it sets system_state to  *)
(* PACKED in both cases                                                      *)
C12_PackedIffAllJoints ==
  ResolvedUnknown =>
    IF start_up_sequence
    THEN system_state = "PACKED" /\ ~ros_shutdown
    ELSE /\ ros_shutdown <=> AllJointsWithinTolerance
         /\ system_state = (IF AllJointsWithinTolerance THEN "UNKNOWN" ELSE "OFF")

(* The velocities handed to updateWalk in the last tick *)
WalkVelocities == {calls[i].arg : i \in Pos("updateWalk")}

StopForced(s) ==
  /\ s.system_state = "RUNNING"
  /\ ~s.transition_state_flag
  /\ RequestPending(s)
  /\ s.walk_state # "STOPPED"

(* C13: in every RUNNING tick in which a gait change, a parameter adjustment  *)
(* or a leg state toggle is pending and the walker is not STOPPED, updateWalk *)
(* is called with zero linear and zero angular velocity, also when a velocity *)
(* callback set a non-zero velocity since the previous tick and when cruise   *)
(* control is ON                                                              *)
C13_ZeroVelocityWhileStopping ==
  (Ticked /\ StopForced(pre)) =>
    /\ WalkVelocities = {<<0, 0>>}
    /\ linear_velocity_input = 0
    /\ angular_velocity_input = 0

C13_Witness ==
  /\ Ticked
  /\ StopForced(pre)
  /\ pre.toggle_primary_leg_state
  /\ pre.linear_velocity_input # 0
  /\ pre.cruise_control_mode = "CRUISE_CONTROL_ON"
  /\ pre.linear_cruise_velocity # 0
  /\ WalkVelocities = {<<0, 0>>}

(* A gait selection that differs from the current one raises the request *)
C14_Raised ==
  ( /\ last.op = "gaitSelectionCallback"
    /\ pre.system_state = "RUNNING"
    /\ last.input # pre.gait_selection
    /\ last.input # GAIT_UNDESIGNATED )
  => (gait_change_flag /\ gait_selection = last.input)

(* The gait type string that names each gait *)
GaitNames ==
  [g \in Gaits |-> IF g = "TRIPOD_GAIT" THEN "tripod_gait"
                   ELSE IF g = "RIPPLE_GAIT" THEN "ripple_gait"
                   ELSE IF g = "WAVE_GAIT" THEN "wave_gait"
                   ELSE "amble_gait"]

(* The tick that clears the request loads the gait selected last *)
C14_Loaded ==
  (Ticked /\ pre.gait_change_flag /\ ~gait_change_flag) =>
    /\ pre.walk_state = "STOPPED"
    /\ gait_selection = pre.gait_selection
    /\ gait_selection \in Gaits
    /\ gait_type = GaitNames[gait_selection]
    /\ Before("initGaitParameters", "setGaitParams")
    /\ Called("initGaitParameters") /\ Called("setGaitParams")

(* C14: a gait selection received while RUNNING that differs from the current *)
(* gait and is not GAIT_UNDESIGNATED raises gait_change_flag; while the       *)
(* system stays RUNNING with no system transition pending and the walker      *)
(* reaches STOPPED after finitely many zero velocity updates (and the process *)
(* has not been shut down), the flag is                                       *)
(* eventually cleared, and the tick that clears it has loaded the gait        *)
(* parameters of the gait selected last, gait_type naming that gait           *)
C14_GaitChangeCompletes ==
  /\ [](C14_Raised /\ C14_Loaded)
  /\ (Alive /\ gait_change_flag /\ system_state = "RUNNING" /\ ~transition_state_flag)
       ~> (~gait_change_flag \/ system_state # "RUNNING" \/ transition_state_flag)

C14_Witness ==
  /\ Ticked
  /\ pre.gait_change_flag
  /\ ~gait_change_flag
  /\ pre.gait_type = "tripod_gait"
  /\ gait_type = "wave_gait"

(* adjustParameter runs in a tick that starts in s *)
AdjustRuns(s) ==
  /\ s.system_state = "RUNNING"
  /\ ~s.transition_state_flag
  /\ ~s.gait_change_flag
  /\ s.parameter_adjust_flag

ValueSet(s) == AdjustRuns(s) /\ s.walk_state = "STOPPED" /\ ~s.new_parameter_set

InLimits(v) == ParameterLimits.min_value <= v /\ v <= ParameterLimits.max_value

C16_ZeroAdjustmentChangesNothing ==
  (last.op = "parameterAdjustCallback" /\ last.input = 0) =>
    /\ current_value = pre.current_value
    /\ adjust_step = pre.adjust_step
    /\ parameter_adjust_flag = pre.parameter_adjust_flag
    /\ parameter_selection = pre.parameter_selection
    /\ parameter_being_adjusted = pre.parameter_being_adjusted
    /\ Cur = pre

C16_Witness ==
  /\ last.op = "parameterAdjustCallback"
  /\ last.input = 0
  /\ pre.system_state = "RUNNING"
  /\ pre.parameter_selection = "STEP_CLEARANCE"
  /\ pre.adjust_step["STEP_CLEARANCE"] = -1
  /\ ~pre.parameter_adjust_flag
  /\ ~parameter_adjust_flag

(* C17: after every tip force callback the tip_force of each leg is the raw *)
(* reading at index 2 * id less 1255, clamped into [0, 1000]: a reading     *)
(* below the offset gives 0, and tip_force never exceeds 1000               *)
C17_TipForceClamped ==
  /\ last.op = "tipForceCallback" =>
       \A l \in Legs :
         LET reading == last.input[2 * l + 1] - 1255
         IN  tip_force[l] = (IF reading < 0 THEN 0
                             ELSE IF reading > 1000 THEN 1000 ELSE reading)
  /\ \A l \in Legs : 0 <= tip_force[l] /\ tip_force[l] <= 1000

C17_Witness ==
  /\ last.op = "tipForceCallback"
  /\ last.input[1] < 1255
  /\ last.input[2] > 1255
  /\ pre.tip_force[0] = 1000
  /\ \A l \in Legs : tip_force[l] = 0

(* legStateToggle runs in a tick that starts in s, with the walker STOPPED, *)
(* on a selected leg                                                        *)
ToggleRuns(s) ==
  /\ s.system_state = "RUNNING"
  /\ ~s.transition_state_flag
  /\ ~s.gait_change_flag
  /\ ~s.parameter_adjust_flag
  /\ s.toggle_primary_leg_state \/ s.toggle_secondary_leg_state
  /\ s.walk_state = "STOPPED"
  /\ TransitioningLeg(s) \in Legs

(* C18: when legStateToggle processes, with the walker STOPPED, a selected *)
(* leg that is WALKING while manual_leg_count equals MAX_MANUAL_LEGS, the  *)
(* request is rejected: the leg stays WALKING, manual_leg_count is         *)
(* unchanged and both toggle request flags are cleared                     *)
C18_ToggleRejectedAtCap ==
  ( /\ Ticked
    /\ ToggleRuns(pre)
    /\ pre.leg_state[TransitioningLeg(pre)] = "WALKING"
    /\ pre.manual_leg_count = MAX_MANUAL_LEGS )
  => ( /\ leg_state = pre.leg_state
       /\ manual_leg_count = pre.manual_leg_count
       /\ ~toggle_primary_leg_state
       /\ ~toggle_secondary_leg_state )

C18_Witness ==
  /\ Ticked
  /\ ToggleRuns(pre)
  /\ pre.leg_state[TransitioningLeg(pre)] = "WALKING"
  /\ pre.manual_leg_count = MAX_MANUAL_LEGS
  /\ Cardinality({l \in Legs : leg_state[l] = "MANUAL"}) = MAX_MANUAL_LEGS
  /\ ~toggle_primary_leg_state

(* C19: starting from a WALKING leg, with no other toggle activity and the   *)
(* leg selections unchanged, a completed toggle to MANUAL followed by a      *)
(* completed toggle back to WALKING leaves manual_leg_count at the value it  *)
(* had before the first toggle, the leg in WALKING state and both toggle     *)
(* flags cleared                                                             *)
C19_RoundTripRestoresCount ==
  trip.done =>
    /\ manual_leg_count = trip.count
    /\ leg_state[trip.leg] = "WALKING"
    /\ ~toggle_primary_leg_state
    /\ ~toggle_secondary_leg_state

C19_Witness ==
  /\ trip.done
  /\ trip.count = 1
  /\ manual_leg_count = 1
  /\ pre.manual_leg_count = 2

(* The changes of a leg's state: from, to *)
LegStateChanges ==
  { <<"WALKING", "WALKING_TO_MANUAL">>, <<"WALKING_TO_MANUAL", "MANUAL">>,
    <<"MANUAL", "MANUAL_TO_WALKING">>, <<"MANUAL_TO_WALKING", "WALKING">> }

ChangedLegs == {l \in Legs : leg_state[l] # pre.leg_state[l]}

(* C20: every change of a leg's leg_state is one of WALKING to               *)
(* WALKING_TO_MANUAL, WALKING_TO_MANUAL to MANUAL, MANUAL to                 *)
(* MANUAL_TO_WALKING, MANUAL_TO_WALKING to WALKING: no leg changes directly  *)
(* between WALKING and MANUAL or between the two transitional states; a      *)
(* change is made by a tick, to one leg                                      *)
C20_LegStateChanges ==
  /\ \A l \in ChangedLegs : <<pre.leg_state[l], leg_state[l]>> \in LegStateChanges
  /\ ChangedLegs # {} => (Ticked /\ Called("legStateToggle"))
  /\ Cardinality(ChangedLegs) <= 1
  /\ \A l \in Legs : leg_state[l] \in LegStates

C20_Witness ==
  /\ Ticked
  /\ \E l \in Legs : pre.leg_state[l] = "MANUAL_TO_WALKING" /\ leg_state[l] = "WALKING"
  /\ \E l \in Legs : leg_state[l] = "MANUAL"

---------------------------------------------------------------------------
(* Commands during a transition *)

(* A transition was under way and a command had set the target back to the *)
(* state the system is in, when the last tick ran                          *)
AbortedTransition ==
  /\ Ticked
  /\ pre.transition_state_flag
  /\ pre.system_state # "UNKNOWN"
  /\ pre.new_system_state = pre.system_state

(* C21: while a system transition is in progress, a system state command    *)
(* whose target equals the current system state aborts the transition: the *)
(* next tick clears transition_state_flag, leaves system_state unchanged   *)
(* and does not signal the fatal shutdown.                                 *)
C21_SameStateCommandAborts ==
  AbortedTransition =>
    /\ ~transition_state_flag
    /\ system_state = pre.system_state
    /\ ~ros_shutdown

---------------------------------------------------------------------------
(* Inputs that arrive when they are not meaningful *)

(* The callbacks that are served in RUNNING state only *)
RunningOnlyCallbacks ==
  { "gaitSelectionCallback", "posingModeCallback", "cruiseControlCallback",
    "autoNavigationCallback", "parameterSelectionCallback", "parameterAdjustCallback",
    "primaryLegSelectionCallback", "secondaryLegSelectionCallback",
    "primaryLegStateCallback", "secondaryLegStateCallback" }

(* The last operation was a callback that found nothing to act on *)
NotMeaningful ==
  \/ last.op \in RunningOnlyCallbacks /\ pre.system_state # "RUNNING"
  \/ /\ last.op = "parameterAdjustCallback"
     /\ pre.parameter_selection = NO_PARAMETER_SELECTION
  \/ /\ last.op = "primaryLegStateCallback"
     /\ pre.primary_leg_selection = LEG_UNDESIGNATED
  \/ /\ last.op = "secondaryLegStateCallback"
     /\ pre.secondary_leg_selection = LEG_UNDESIGNATED

(* C22: when system_state is not RUNNING the gait selection, posing mode,   *)
(* cruise control, auto navigation, parameter selection, parameter adjust, *)
(* leg selection and leg state callbacks leave every field of the          *)
(* controller unchanged; in RUNNING a parameter adjustment with no         *)
(* parameter selected and a leg state toggle with no leg selected in its   *)
(* slot do the same, so no request flag is raised.                         *)
C22_IgnoredInputChangesNothing == NotMeaningful => Cur = pre

(* A gait the controller does not have selected is requested during the *)
(* direct start up                                                      *)
C22_Witness ==
  /\ last.op = "gaitSelectionCallback"
  /\ pre.system_state = "OFF"
  /\ pre.transition_state_flag
  /\ last.input \notin {pre.gait_selection, GAIT_UNDESIGNATED}
  /\ Cur = pre

---------------------------------------------------------------------------
(* The desired joint state *)

Abs(x) == IF x < 0 THEN -x ELSE x

Published == last.op = "publishDesiredJointState"

(* The velocity the desired position of joint j of leg l required *)
RequiredVelocity(l, j) ==
  (pre.desired_position[l][j] - pre.prev_desired_position[l][j]) * TickRate

(* C23: after every publishDesiredJointState every joint has               *)
(* |desired_velocity| <= max_angular_speed; a desired position that would  *)
(* require a larger velocity is reduced to prev_desired_position +         *)
(* desired_velocity * time_delta.                                          *)
C23_JointVelocityClamped ==
  Published =>
    \A l \in Legs, j \in Joints :
      /\ Abs(desired_velocity[l][j]) <= MaxAngularSpeed
      /\ Abs(RequiredVelocity(l, j)) > MaxAngularSpeed =>
           desired_position[l][j] * TickRate =
             pre.prev_desired_position[l][j] * TickRate + desired_velocity[l][j]

---------------------------------------------------------------------------
(* The tick of the running controller *)

(* The last tick was one of runningState *)
RunningTick ==
  /\ Ticked
  /\ pre.system_state = "RUNNING"
  /\ ~pre.transition_state_flag
  /\ ~crashed

PipelineStages == {"updateWalk", "updateManual", "updateStance"}

(* Every stage of the pipeline ran, in order and once, with IK of every leg *)
FourStagesRan ==
  /\ \A fn \in PipelineStages : Cardinality(Pos(fn)) = 1
  /\ \A l \in Legs : Cardinality({i \in Pos("applyIK") : calls[i].leg = l}) = 1
  /\ Before("updateWalk", "updateManual")
  /\ Before("updateManual", "updateStance")
  /\ Before("updateStance", "applyIK")

NoStageRan == \A fn \in PipelineStages \cup {"applyIK"} : Pos(fn) = {}

(* A request is left after the sub-action of the tick *)
RequestActive ==
  \/ gait_change_flag
  \/ parameter_adjust_flag
  \/ toggle_primary_leg_state
  \/ toggle_secondary_leg_state

(* C24 as claimed: in every RUNNING tick without a pending system transition *)
(* the four stage pipeline runs, except that it is skipped exactly when a    *)
(* gait change, parameter adjust or leg toggle request is active and the     *)
(* walker is not yet STOPPED                                                 *)
C24_SkippedWhileStopping ==
  RunningTick =>
    /\ FourStagesRan \/ NoStageRan
    /\ NoStageRan <=> (RequestActive /\ pre.walk_state # "STOPPED")

(* C24 amended: in every RUNNING tick without a pending system transition  *)
(* the four stage pipeline (updateWalk, updateManual, updateStance, IK of  *)
(* every leg) runs, except that it is skipped exactly when a gait change,  *)
(* parameter adjust or leg toggle request is still active after the tick's *)
(* sub-action and the walker is STOPPED                                    *)
C24_SkippedWhenStopped ==
  RunningTick =>
    /\ FourStagesRan \/ NoStageRan
    /\ NoStageRan <=> (RequestActive /\ pre.walk_state = "STOPPED")

(* A parameter is being adjusted on the stopped robot: no stage runs *)
C24_Witness ==
  /\ RunningTick
  /\ Called("adjustParameter")
  /\ parameter_adjust_flag
  /\ pre.walk_state = "STOPPED"
  /\ NoStageRan

SubActions == {"changeGait", "adjustParameter", "legStateToggle"}

(* The sub-action the priority order gives to the tick, from the fields before it *)
Chosen ==
  IF pre.gait_change_flag THEN "changeGait"
  ELSE IF pre.parameter_adjust_flag THEN "adjustParameter"
  ELSE IF pre.toggle_primary_leg_state \/ pre.toggle_secondary_leg_state
  THEN "legStateToggle"
  ELSE IF pre.cruise_control_mode = "CRUISE_CONTROL_ON" THEN "cruise"
  ELSE "none"

(* The velocity input after the tick is the cruise velocity when cruise    *)
(* control is chosen; a sub-action leaves the input as it was on the       *)
(* stopped robot and zeroes it otherwise                                   *)
VelocityInputAfter ==
  IF Chosen = "cruise"
  THEN <<pre.linear_cruise_velocity, pre.angular_cruise_velocity>>
  ELSE IF Chosen = "none" \/ pre.walk_state = "STOPPED"
  THEN <<pre.linear_velocity_input, pre.angular_velocity_input>>
  ELSE <<0, 0>>

ParameterProgress(s) ==
  <<s.parameter_adjust_flag, s.new_parameter_set, s.current_value, s.adjust_step>>

ToggleProgress(s) ==
  <<s.toggle_primary_leg_state, s.toggle_secondary_leg_state, s.leg_state,
    s.manual_leg_count, s.pose_reset_mode>>

GaitProgress(s) == <<s.gait_change_flag, s.gait_type, s.max_acceleration>>

(* C25: in each RUNNING tick at most one of changeGait, adjustParameter,    *)
(* legStateToggle and the cruise velocity substitution is executed, chosen *)
(* by the priority gait change > parameter adjust > leg state toggle >     *)
(* cruise control; a pending request of lower priority makes no progress   *)
(* in a tick in which a request of higher priority is pending.             *)
C25_OneSubActionByPriority ==
  RunningTick =>
    /\ \A fn \in SubActions : Cardinality(Pos(fn)) = (IF fn = Chosen THEN 1 ELSE 0)
    /\ <<linear_velocity_input, angular_velocity_input>> = VelocityInputAfter
    /\ Chosen # "changeGait" => GaitProgress(Cur) = GaitProgress(pre)
    /\ Chosen # "adjustParameter" => ParameterProgress(Cur) = ParameterProgress(pre)
    /\ Chosen # "legStateToggle" => ToggleProgress(Cur) = ToggleProgress(pre)

(* Every request is pending with cruise control on: the gait change is served *)
C25_Witness ==
  /\ RunningTick
  /\ pre.gait_change_flag
  /\ pre.parameter_adjust_flag
  /\ pre.toggle_primary_leg_state
  /\ pre.cruise_control_mode = "CRUISE_CONTROL_ON"
  /\ pre.linear_cruise_velocity # 0
  /\ pre.walk_state = "STOPPED"
  /\ Called("changeGait")
  /\ ~gait_change_flag

---------------------------------------------------------------------------
(* The leg a toggle acts on *)

(* legStateToggle ran in the last tick on the stopped robot *)
ToggleProcessed ==
  /\ Ticked
  /\ Called("legStateToggle")
  /\ pre.walk_state = "STOPPED"

(* The selection of the slot the toggle processes: the primary slot when its *)
(* toggle is requested, the secondary slot otherwise                         *)
ProcessedSelection ==
  IF pre.toggle_primary_leg_state THEN pre.primary_leg_selection
  ELSE pre.secondary_leg_selection

(* C26: whenever legStateToggle processes a slot in a tick with the walker  *)
(* STOPPED, a leg is selected in that slot (a valid leg id, not            *)
(* LEG_UNDESIGNATED), whatever leg selection callbacks arrive between the  *)
(* toggle request and the tick.                                            *)
C26_ProcessedSlotHasLeg == ToggleProcessed => ProcessedSelection \in Legs

---------------------------------------------------------------------------
(* The impedance stage *)

(* The impedance updates of leg l in the last tick *)
ImpedanceUpdates(l) == {i \in Pos("updateImpedance") : calls[i].leg = l}

(* C27: in every tick with system_state other than UNKNOWN and impedance   *)
(* control enabled the impedance update runs exactly once for each leg in  *)
(* WALKING state and for no leg in MANUAL, WALKING_TO_MANUAL or            *)
(* MANUAL_TO_WALKING state; with system_state UNKNOWN or impedance control *)
(* disabled it runs for no leg.                                            *)
C27_ImpedanceForWalkingLegs ==
  Ticked =>
    \A l \in Legs :
      Cardinality(ImpedanceUpdates(l)) =
        (IF /\ pre.system_state # "UNKNOWN"
            /\ pre.impedance_control
            /\ pre.leg_state[l] = "WALKING"
         THEN 1 ELSE 0)

(* One leg is MANUAL and another on its way back to WALKING: the update *)
(* runs for the remaining legs only                                     *)
C27_Witness ==
  /\ Ticked
  /\ pre.impedance_control
  /\ \E l, m \in Legs :
        /\ pre.leg_state[l] = "MANUAL"
        /\ pre.leg_state[m] = "MANUAL_TO_WALKING"
        /\ ImpedanceUpdates(l) = {}
        /\ ImpedanceUpdates(m) = {}
  /\ \E l \in Legs : pre.leg_state[l] = "WALKING" /\ ImpedanceUpdates(l) # {}

(* C28: stiffness is modulated only when dynamic_stiffness is true: neither *)
(* updateStiffness(walker) in the impedance stage nor updateStiffness(leg, *)
(* ratio) during a leg state transition is called in a tick when           *)
(* dynamic_stiffness is false.                                             *)
C28_StiffnessOnlyWhenDynamic ==
  (Ticked /\ ~pre.dynamic_stiffness) => Pos("updateStiffness") = {}

---------------------------------------------------------------------------
(* The acceleration limits *)

(* The limits with which the walker does not clamp the acceleration *)
ClampDisabled == max_acceleration.linear = -1 /\ max_acceleration.angular = -1

(* The last tick completed a gait change *)
GaitChanged == Ticked /\ Called("setGaitParams")

(* C29: when a gait change completes max_linear_acceleration and          *)
(* max_angular_acceleration are set to the sentinel -1, and they remain  *)
(* -1 in every later state: no tick and no callback enables the          *)
(* acceleration clamp again.                                             *)
C29_ClampStaysDisabled ==
  /\ [](GaitChanged => ClampDisabled)
  /\ [][ClampDisabled => ClampDisabled']_vars

(* The gait was changed; since then a parameter was adjusted, a leg taken *)
(* over and the robot driven                                             *)
C29_Witness ==
  /\ ClampDisabled
  /\ gait_type = "wave_gait"
  /\ Ticked
  /\ walk_state = "MOVING"
  /\ current_value["STEP_FREQUENCY"] # ParameterLimits.default_value
  /\ \E l \in Legs : leg_state[l] = "MANUAL"

---------------------------------------------------------------------------
(* Cruise control *)

CruiseVelocity(s) == <<s.linear_cruise_velocity, s.angular_cruise_velocity>>

(* The last tick was one of runningState with cruise control on and no *)
(* request pending                                                     *)
CruiseTick ==
  /\ RunningTick
  /\ pre.cruise_control_mode = "CRUISE_CONTROL_ON"
  /\ ~pre.gait_change_flag
  /\ ~pre.parameter_adjust_flag
  /\ ~pre.toggle_primary_leg_state
  /\ ~pre.toggle_secondary_leg_state

(* The last operation switched cruise control from off to on *)
SwitchedOn ==
  /\ pre.cruise_control_mode = "CRUISE_CONTROL_OFF"
  /\ cruise_control_mode = "CRUISE_CONTROL_ON"

(* Cruise control was on before the last operation and is on after it *)
StayedOn ==
  /\ pre.cruise_control_mode = "CRUISE_CONTROL_ON"
  /\ cruise_control_mode = "CRUISE_CONTROL_ON"

(* C30: in a RUNNING tick with cruise control ON and no gait change,        *)
(* parameter adjust or leg toggle request pending, updateWalk receives the *)
(* cruise velocity whatever the last velocity command was; the cruise      *)
(* velocity is fixed at the switch from OFF to ON (the configured cruise   *)
(* velocity if force_cruise_velocity, otherwise the velocity input at that *)
(* moment) and does not change while cruise control stays ON.              *)
C30_CruiseVelocitySubstituted ==
  /\ CruiseTick => WalkVelocities = {CruiseVelocity(pre)}
  /\ SwitchedOn =>
       CruiseVelocity(Cur) =
         (IF pre.force_cruise_velocity
          THEN <<1, 1>>
          ELSE <<pre.linear_velocity_input, pre.angular_velocity_input>>)
  /\ StayedOn => CruiseVelocity(Cur) = CruiseVelocity(pre)

(* The robot cruises at the velocity sampled at the switch although the *)
(* last velocity command asked it to stand                              *)
C30_Witness ==
  /\ CruiseTick
  /\ ~pre.force_cruise_velocity
  /\ CruiseVelocity(pre) = <<1, 0>>
  /\ pre.linear_velocity_input = 0
  /\ WalkVelocities = {<<1, 0>>}

---------------------------------------------------------------------------
(* The joint positions of the bring-up *)

(* C31: system_state is held at UNKNOWN until all joints have reported a   *)
(* position: a tick that starts in UNKNOWN while joint_positions_initialised *)
(* is false leaves system_state at UNKNOWN.                                *)
C31_HeldAtUnknown ==
  (/\ Ticked
   /\ pre.system_state = "UNKNOWN"
   /\ ~pre.joint_positions_initialised)
  => system_state = "UNKNOWN"

Unassigned == {<<l, j>> \in Legs \X Joints : current_position[l][j] = UNASSIGNED_VALUE}

(* C39: joint_positions_initialised is false initially; it becomes true    *)
(* only in a joint states callback after which no joint holds              *)
(* UNASSIGNED_VALUE as its current_position, every joint having been named *)
(* by a message by then; once true it never becomes false again.           *)
C39_InitialisedOnceAllReported ==
  /\ ~joint_positions_initialised
  /\ [][(~joint_positions_initialised /\ joint_positions_initialised')
          => /\ last'.op = "jointStatesCallback"
             /\ Unassigned' = {}
             /\ reported' = Legs \X Joints]_vars
  /\ [][joint_positions_initialised => joint_positions_initialised']_vars

(* A message leaves a joint at UNASSIGNED_VALUE after the positions were *)
(* initialised, joint by joint for leg 0 *)
C39_Witness ==
  /\ last.op = "jointStatesCallback"
  /\ pre.joint_positions_initialised
  /\ joint_positions_initialised
  /\ Unassigned # {}

---------------------------------------------------------------------------
(* The count of manual legs and the toggle requests *)

(* C34: in every reachable state 0 <= manual_leg_count <= MAX_MANUAL_LEGS, *)
(* for every interleaving of leg selection callbacks, toggle callbacks and *)
(* ticks.                                                                  *)
C34_ManualLegCountInRange == 0 <= manual_leg_count /\ manual_leg_count <= MAX_MANUAL_LEGS

(* C35: whenever both toggle request flags are false, no leg is in          *)
(* WALKING_TO_MANUAL or MANUAL_TO_WALKING: the leg that enters a            *)
(* transitional state finishes it before the request is cleared, also when  *)
(* the leg selection of the toggled slot changes during the transition.     *)
C35_NoTransitionWithoutRequest ==
  (~toggle_primary_leg_state /\ ~toggle_secondary_leg_state)
  => \A l \in Legs : leg_state[l] \notin Transitional

(* C32: toggle_primary_leg_state and toggle_secondary_leg_state are never   *)
(* both true: a toggle request for one slot is rejected, changing nothing, *)
(* while the toggle of the other slot is pending.                          *)
C32_TogglesExclusive ==
  /\ ~(toggle_primary_leg_state /\ toggle_secondary_leg_state)
  /\ (last.op = "primaryLegStateCallback" /\ pre.toggle_secondary_leg_state) => Cur = pre
  /\ (last.op = "secondaryLegStateCallback" /\ pre.toggle_primary_leg_state) => Cur = pre

(* A primary toggle request that would be accepted but for the pending *)
(* secondary toggle *)
C32_Witness ==
  /\ last.op = "primaryLegStateCallback"
  /\ pre.system_state = "RUNNING"
  /\ pre.toggle_secondary_leg_state
  /\ pre.primary_leg_selection \in Legs
  /\ last.input # pre.primary_leg_state
  /\ toggle_secondary_leg_state
  /\ ~toggle_primary_leg_state

LegsIn(states) == {l \in Legs : leg_state[l] \in states}

(* C33, as claimed: in every reachable state manual_leg_count equals the *)
(* number of legs whose leg_state is MANUAL.                             *)
C33_CountEqualsManualLegs == manual_leg_count = Cardinality(LegsIn({"MANUAL"}))

(* C33, amended: in every reachable state manual_leg_count equals the     *)
(* number of legs whose leg_state is MANUAL or MANUAL_TO_WALKING, for     *)
(* every interleaving of leg selection callbacks, toggle callbacks and    *)
(* ticks, also when the two slots select the same leg.                    *)
C33_CountEqualsManualOrReturning ==
  manual_leg_count = Cardinality(LegsIn({"MANUAL", "MANUAL_TO_WALKING"}))

(* Both slots select the leg that is on its way back to WALKING, another *)
(* leg is MANUAL and a third leg state is stranded or not                *)
C33_Witness ==
  /\ primary_leg_selection = secondary_leg_selection
  /\ primary_leg_selection \in Legs
  /\ leg_state[primary_leg_selection] = "MANUAL_TO_WALKING"
  /\ toggle_secondary_leg_state
  /\ manual_leg_count = 2
  /\ Cardinality(LegsIn({"MANUAL"})) = 1

---------------------------------------------------------------------------
(* Parameter adjustment and selection *)

(* C36: when a pending parameter adjustment is applied, the parameter whose *)
(* current_value changes is the one that was selected when the request was *)
(* accepted, and the change is in the requested direction (no decrease for *)
(* +1, no increase for -1), also when a parameter selection callback       *)
(* arrives between the request and the tick that applies it.               *)
C36_AppliedToRequestedParameter ==
  [][current_value' # current_value =>
       \A p \in AdjustableParameters :
          /\ current_value'[p] # current_value[p] => p = request.parameter
          /\ request.direction = 1 => current_value'[p] >= current_value[p]
          /\ request.direction = -1 => current_value'[p] <= current_value[p]]_vars

(* C37: after init with a configured gait_type that names one of the four *)
(* supported gaits, in every reachable state in which gait_change_flag is *)
(* false the gait_type names the gait held in gait_selection, also when   *)
(* several gait selections, or a selection back to the original gait,     *)
(* arrive before the walker stops.                                        *)
C37_GaitTypeNamesSelection ==
  (initialised /\ ConfiguredGaitType \in {GaitNames[g] : g \in Gaits} /\ ~gait_change_flag)
  => (gait_selection \in Gaits /\ gait_type = GaitNames[gait_selection])

(* A tick completes a gait change to the gait that was loaded already: the *)
(* operator selected another gait and the first one again before the       *)
(* walker stopped                                                          *)
C37_Witness ==
  /\ Ticked
  /\ pre.gait_change_flag
  /\ ~gait_change_flag
  /\ Called("setGaitParams")
  /\ pre.gait_type = "tripod_gait"
  /\ gait_type = "tripod_gait"
  /\ gait_selection = "TRIPOD_GAIT"

---------------------------------------------------------------------------
(* What the input callbacks write *)

InputCallbacks ==
  { "systemStateCallback", "bodyVelocityInputCallback",
    "primaryTipVelocityInputCallback", "secondaryTipVelocityInputCallback",
    "gaitSelectionCallback", "posingModeCallback", "cruiseControlCallback",
    "autoNavigationCallback", "parameterSelectionCallback", "parameterAdjustCallback",
    "primaryLegSelectionCallback", "secondaryLegSelectionCallback",
    "primaryLegStateCallback", "secondaryLegStateCallback",
    "tipForceCallback", "jointStatesCallback" }

(* The input, selection and request fields, with the sensor readings *)
InputFields ==
  { "new_system_state", "transition_state_flag", "user_input_flag",
    "gait_selection", "gait_change_flag",
    "parameter_selection", "parameter_being_adjusted", "parameter_adjust_flag",
    "adjust_step", "posing_mode", "auto_navigation_mode",
    "cruise_control_mode", "linear_cruise_velocity", "angular_cruise_velocity",
    "linear_velocity_input", "angular_velocity_input",
    "primary_leg_selection", "secondary_leg_selection",
    "primary_leg_state", "secondary_leg_state",
    "toggle_primary_leg_state", "toggle_secondary_leg_state",
    "primary_tip_velocity_input", "secondary_tip_velocity_input",
    "tip_force", "current_position", "joint_positions_initialised" }

Changed == {f \in DOMAIN pre : Cur[f] # pre[f]}

(* C38: no input callback changes system_state, a leg's leg_state,         *)
(* manual_leg_count or a parameter's current_value; system_state changes   *)
(* only in init and in the transition step of a tick; leg_state,           *)
(* manual_leg_count and current_value change only in a tick of the RUNNING *)
(* controller; a callback writes only input, selection and request fields. *)
C38_CallbacksWriteOnlyRequests ==
  /\ last.op \in InputCallbacks => Changed \subseteq InputFields
  /\ "system_state" \in Changed =>
        \/ last.op = "init"
        \/ Ticked /\ pre.transition_state_flag /\ Called("transitionSystemState")
  /\ Changed \cap {"leg_state", "manual_leg_count", "current_value"} # {} =>
        /\ Ticked
        /\ pre.system_state = "RUNNING"
        /\ ~pre.transition_state_flag
        /\ Called("runningState")

(* A parameter adjustment is requested while a leg toggle is pending: the *)
(* callback writes the request and the step, the tick will apply them     *)
C38_Witness ==
  /\ last.op = "parameterAdjustCallback"
  /\ ~pre.parameter_adjust_flag
  /\ parameter_adjust_flag
  /\ toggle_primary_leg_state
  /\ Changed = {"parameter_adjust_flag"}

=============================================================================
